---- MODULE Spec2Model ----
(***************************************************************************)
(* The backup orchestration engine of NightScoutMongoBackup: the three     *)
(* BackupService singletons (mongodump, per-collection, and the stand-     *)
(* alone copy in file.ts), their run history, the temporary directories    *)
(* of the mongodump variant and the notifications they emit.               *)
(*                                                                         *)
(* performBackup is an async function: every `await` is a suspension       *)
(* point.  pc[r] names the call run r is suspended on; one action is the   *)
(* completion of that call together with all the synchronous code that     *)
(* follows it up to the next await (or to the return).  The outcome of     *)
(* each external call is a parameter of the action.                        *)
(***************************************************************************)
EXTENDS Integers, Sequences, FiniteSets, TLC

VARIABLES
    clock,      \* wall clock, in milliseconds (new Date())
    pc,         \* pc[r]: the await run r is suspended on, or idle/returned/rejected
    variant,    \* variant[r]: which BackupService singleton run r executes
    opts,       \* opts[r]: the BackupOptions of the invocation
    local,      \* local[r]: the locals of performBackup
    result,     \* result[r]: the BackupResult object of the invocation
    calls,      \* calls[r]: the calls run r has started and the stage results, in order
    appended,   \* appended[r]: addToHistory calls made by the current invocation of r
    history,    \* history[v]: backupHistory of singleton v
    recorded,   \* recorded[v]: every entry ever pushed on backupHistory of v, by whom
    completed,  \* completed[v]: invocations of v that have returned or rejected
    started,    \* number of invocations started so far
    fs,         \* the paths that exist under /tmp
    script,     \* script[c]: the outcome the environment gave external call c, once given
    reportFailures, \* reportFailures[r]: thread-service calls of run r that failed
    fetched,    \* fetched[r]: the collections run r fetched, each with what came back
    threads,    \* DiscordThreadService: threads created, deletion timers, deletions tried
    bucket,     \* the objects of the S3 bucket under backups/
    uploading,  \* the call of S3Service.uploadFile in flight, if any
    uploads,    \* the calls of uploadFile that returned, each with its result
    listings,   \* the calls of S3Service.listBackups, each with its result
    compression,    \* CompressionService: COMPRESSION_METHOD, the call in flight, the results
    callers,    \* the arrays getBackupHistory returned and what each call returned
    rateLimitSetting,   \* the environment's BACKUP_RATE_LIMIT_MINUTES, as characters
    lastBackupTime,     \* BackupRateLimitPrecondition.lastBackupTime
    checks,     \* the calls of checkRateLimit so far, each with what it returned
    manual,     \* the runs of the manual command so far
    intervalId, \* NightlyBackupTask.intervalId
    timers,     \* the interval timers set so far, each with its last callback
    fired,      \* the calls of run() by the scheduler so far
    reports     \* what run() did when its performBackup ended (SpecFire)

\* the variables of the backup engine
engine == <<clock, pc, variant, opts, local, result, calls, appended, history,
            recorded, completed, started, fs>>

\* the variables outside the backup engine
\* the services the engine calls, each on its own
services == <<threads, bucket, uploading, uploads, listings, compression, callers>>

reporting == <<script, reportFailures, fetched, services>>
limiter == <<rateLimitSetting, lastBackupTime, checks, manual>>
scheduler == <<intervalId, timers, fired, reports>>
outside == <<reporting, limiter, scheduler>>

vars == <<engine, outside>>

----------------------------------------------------------------------------
(* Bounds of the model *)

\* invocations of performBackup in one behaviour of Spec
MaxInvocations == 1
\* invocations in one behaviour of SpecHistory (more than the history limit)
HistoryInvocations == 11
\* invocations in one behaviour of SpecConcurrent
ConcurrentInvocations == 2
\* clock ticks in one behaviour
MaxTicks == 1

\* calls of checkRateLimit in one behaviour of SpecLimiter
MaxChecks == 3

\* calls of start() that set a timer in one behaviour of SpecScheduler
MaxStarts == 2
\* callbacks of one interval timer in one behaviour of SpecScheduler
MaxTimerTicks == 3
\* how far, in milliseconds, a timer callback may run before or after its period
Jitter == 500

\* calls of createBackupThread in one behaviour of SpecThreads
MaxThreads == 2
\* days the process runs in one behaviour of SpecThreads
MaxThreadDays == 9

\* calls of uploadFile in one behaviour of SpecStorage
MaxUploads == 1
\* calls of listBackups in one behaviour of SpecStorage
MaxListings == 1
\* hours that pass in one behaviour of SpecStorage
MaxStorageHours == 2

\* calls of the compression service in one behaviour of SpecCompression
MaxCompressions == 1

\* calls of getBackupHistory in one behaviour of SpecCallers
MaxReads == 2

\* program constants
HistoryLimit == 10
MsPerSecond == 1000
SecondsPerMinute == 60
MinutesPerHour == 60
HoursPerDay == 24
checkInterval == 60000
\* the clock advances in steps of one second
TickMs == MsPerSecond

RunIds == {"r1", "r2"}
UserIds == {"u1", "u2"}
Variants == {"mongodump", "simple", "file"}

None == <<>>
Some(x) == <<x>>

defaultCollections == <<"entries", "devicestatus", "treatments", "profile">>

\* options.collections of the requests: absent, explicitly empty, two names
CollectionInputs == {None, Some(<<>>), Some(<<"entries", "treatments">>)}

\* document counts a collection query returns
DocCounts == {0, 50}

\* the "<n> document" phrases of a mongodump report, as the numbers they carry
DumpReports == {<<>>, <<50, 15>>}

----------------------------------------------------------------------------
(* Pure helpers *)

RECURSIVE SumSeq(_)
SumSeq(s) == IF s = <<>> THEN 0 ELSE Head(s) + SumSeq(Tail(s))

LastN(s, n) == IF Len(s) <= n THEN s ELSE SubSeq(s, Len(s) - n + 1, Len(s))

\* BaseBackupService.generateBackupId: the ISO time cut after the seconds
generateBackupId(t) == t \div MsPerSecond

\* Paths under /tmp: the run's directory /tmp/nightscout-backup-<id>, the dump
\* directory in it and the archive nightscout-backup-<id>.tar.gz in it.
TempDir(id) == [dir |-> id, name |-> "."]
DumpDir(id) == [dir |-> id, name |-> "dump"]
TarPath(id) == [dir |-> id, name |-> "tar.gz"]
\* path.dirname of a file of a run's directory
Dirname(p) == [dir |-> p.dir, name |-> "."]
\* fs.rm(dir, {recursive: true, force: true}): the directory and all below it go
RemoveTree(files, d) == {p \in files : p.dir # d.dir}

\* BaseBackupService.createInitialResult
createInitialResult ==
    [success |-> FALSE, collectionsProcessed |-> <<>>, totalDocumentsProcessed |-> 0,
     error |-> None, s3Url |-> None, threadId |-> None, compressedPath |-> None]

\* options.collections || this.defaultCollections  (an empty array is truthy)
CollectionsToBackup(o) ==
    IF o.collections = None THEN defaultCollections ELSE o.collections[1]

\* new Error(`<stage prefix><cause>`).message
ErrorMessage(prefix, cause) == [prefix |-> prefix, cause |-> cause]

\* BaseBackupService.addToHistory: push, then keep the last 10
\* addToHistory with unshift in place of push
addToHistoryUnshift(h, e) == LastN(<<e>> \o h, HistoryLimit)
addToHistory(h, e) ==
    IF Len(Append(h, e)) > HistoryLimit
    THEN LastN(Append(h, e), HistoryLimit)
    ELSE Append(h, e)

\* file.ts: the success path pushes and trims, the failure path only pushes
PushFile(h, e) == IF e.success THEN addToHistory(h, e) ELSE Append(h, e)

Push(v, h, e) == IF v = "file" THEN PushFile(h, e) ELSE addToHistory(h, e)

RECURSIVE PushAll(_, _, _)
PushAll(v, h, es) ==
    IF es = <<>> THEN h ELSE PushAll(v, Push(v, h, Head(es)), Tail(es))

\* the mongodump report parsed: the sum of the numbers before " document"
ParseDocumentCount(report) == SumSeq(report)

SuccessStats(res, size) ==
    [success |-> TRUE, collectionsProcessed |-> res.collectionsProcessed,
     totalDocumentsProcessed |-> res.totalDocumentsProcessed,
     s3Url |-> res.s3Url, size |-> size]

\* backup.ts records a failure with no collections and no documents
MongodumpFailureStats ==
    [success |-> FALSE, collectionsProcessed |-> <<>>, totalDocumentsProcessed |-> 0,
     s3Url |-> None, size |-> None]

\* backup-simple.ts and file.ts record what was processed before the failure
SimpleFailureStats(res) ==
    [success |-> FALSE, collectionsProcessed |-> res.collectionsProcessed,
     totalDocumentsProcessed |-> res.totalDocumentsProcessed,
     s3Url |-> None, size |-> None]

----------------------------------------------------------------------------
(* State *)

\* the external calls of a run other than those of the thread service, and the
\* two notifications
ScriptedCalls ==
    {"mkdir", "mongodump", "tar", "uploadFile", "rm1", "stat", "rm2", "rmCatch",
     "fetch1", "fetch2", "emitCompleted", "emitFailed"}

InitLocal ==
    [backupId |-> 0, startTime |-> 0, threadId |-> None, compressedPath |-> None,
     collectionsToBackup |-> <<>>, index |-> 1, compressedSize |-> None]

InitOpts == [collections |-> None, createThread |-> FALSE]

\* envParseString('BACKUP_RATE_LIMIT_MINUTES', '5') when the variable is not set
DefaultRateLimit == <<"5">>

InitAt(t, setting) ==
    /\ clock = t
    /\ pc = [r \in RunIds |-> "idle"]
    /\ variant = [r \in RunIds |-> "mongodump"]
    /\ opts = [r \in RunIds |-> InitOpts]
    /\ local = [r \in RunIds |-> InitLocal]
    /\ result = [r \in RunIds |-> createInitialResult]
    /\ calls = [r \in RunIds |-> <<>>]
    /\ appended = [r \in RunIds |-> 0]
    /\ history = [v \in Variants |-> <<>>]
    /\ recorded = [v \in Variants |-> <<>>]
    /\ completed = [v \in Variants |-> 0]
    /\ started = 0
    /\ fs = {}
    /\ script = [c \in ScriptedCalls |-> "unset"]
    /\ reportFailures = [r \in RunIds |-> 0]
    /\ fetched = [r \in RunIds |-> <<>>]
    /\ threads = [creations |-> <<>>, timeouts |-> {}, deletions |-> <<>>]
    /\ bucket = [earlier |-> 0, put |-> {}]
    /\ uploading = None
    /\ uploads = <<>>
    /\ listings = <<>>
    /\ compression = [method |-> None, compressing |-> None, written |-> {}, results |-> <<>>]
    /\ callers = [held |-> <<>>, reads |-> <<>>]
    /\ rateLimitSetting = setting
    /\ lastBackupTime = [u \in UserIds |-> None]
    /\ checks = <<>>
    /\ manual = <<>>
    /\ intervalId = None
    /\ timers = {}
    /\ fired = <<>>
    /\ reports = <<>>

Init == InitAt(0, DefaultRateLimit)

InFlight(r) == pc[r] \notin {"idle", "returned", "rejected"}

\* A continuation: where the synchronous code after an await ends, with the
\* entries it pushed on the history (in order) and the calls it started.
Cont(p, res, loc, entries, cs) ==
    [pc |-> p, result |-> res, local |-> loc, entries |-> entries, calls |-> cs]

Tagged(r, entries) == [i \in 1..Len(entries) |-> [run |-> r, stats |-> entries[i]]]

Ended(p) == p \in {"returned", "rejected"}

\* Run r resumes and runs to continuation k.
Do(r, k) ==
    /\ pc' = [pc EXCEPT ![r] = k.pc]
    /\ result' = [result EXCEPT ![r] = k.result]
    /\ local' = [local EXCEPT ![r] = k.local]
    /\ calls' = [calls EXCEPT ![r] = @ \o k.calls]
    /\ appended' = [appended EXCEPT ![r] = @ + Len(k.entries)]
    /\ history' = [history EXCEPT ![variant[r]] = PushAll(variant[r], @, k.entries)]
    /\ recorded' = [recorded EXCEPT ![variant[r]] = @ \o Tagged(r, k.entries)]
    /\ completed' = [completed EXCEPT ![variant[r]] = IF Ended(k.pc) THEN @ + 1 ELSE @]
    /\ UNCHANGED <<clock, variant, opts, started>>

----------------------------------------------------------------------------
(* The mongodump variant: backup.ts *)

MdToMkdir(res, loc, cs) == Cont("mkdir", res, loc, <<>>, cs \o <<"mkdir">>)

\* lines 52-66: the progress message if there is a thread, then fs.mkdir
MdAfterThread(res, loc, cs) ==
    IF loc.threadId # None
    THEN Cont("dumpMsg", res, loc, <<>>, cs \o <<"sendBackupProgressMessage">>)
    ELSE MdToMkdir(res, loc, cs)

MdRecordFailure(res, loc, entries, cs) ==
    Cont("returned", res, loc, entries \o <<MongodumpFailureStats>>, cs \o <<"addToHistory">>)

\* MdCatchCleanup without the removal of the archive's directory
MdCatchNoCleanup(res, loc, entries, cs) ==
    Cont("returned", res, loc, entries \o <<MongodumpFailureStats>>, cs \o <<"addToHistory">>)

\* lines 195-210: remove the directory of the archive, if an archive was made
MdCatchCleanup(res, loc, entries, cs) ==
    IF loc.compressedPath # None
    THEN Cont("rmCatch", res, loc, entries, cs \o <<"rm">>)
    ELSE MdRecordFailure(res, loc, entries, cs)

\* lines 181-193: the catch block up to its first await.  emit runs the
\* listeners synchronously; a listener that throws makes emit throw, and the
\* promise of performBackup rejects.
MdCatch(res, loc, err, emitFailedOk, entries, cs) ==
    LET res1 == [res EXCEPT !.error = Some(err)]
        cs1 == cs \o <<"emit:backupFailed">>
    IN  IF ~emitFailedOk THEN Cont("rejected", res1, loc, entries, cs1)
        ELSE IF loc.threadId # None
        THEN Cont("errorMsg", res1, loc, entries, cs1 \o <<"sendBackupErrorMessage">>)
        ELSE MdCatchCleanup(res1, loc, entries, cs1)

\* lines 161-179: record the success, then emit backupCompleted (inside the try)
MdRecordSuccess(res, loc, emitCompletedOk, emitFailedOk, cs) ==
    LET stats == SuccessStats(res, loc.compressedSize)
        cs1 == cs \o <<"addToHistory", "emit:backupCompleted">>
    IN  IF emitCompletedOk THEN Cont("returned", res, loc, <<stats>>, cs1)
        ELSE MdCatch(res, loc, ErrorMessage("", "listener error"), emitFailedOk,
                     <<stats>>, cs1)

\* MdCreateThread with the start message sent whatever createBackupThread returned
MdCreateThreadAlwaysStarts(r, ok) ==
    /\ pc[r] = "createThread" /\ variant[r] = "mongodump"
    /\ LET loc == IF ok THEN [local[r] EXCEPT !.threadId = Some("thread")] ELSE local[r]
           res == IF ok THEN [result[r] EXCEPT !.threadId = Some("thread")] ELSE result[r]
       IN  Do(r, Cont("startMsg", res, loc, <<>>, <<"sendBackupStartMessage">>))
    /\ UNCHANGED fs

MdCreateThread(r, ok) ==
    /\ pc[r] = "createThread" /\ variant[r] = "mongodump"
    /\ LET loc == IF ok THEN [local[r] EXCEPT !.threadId = Some("thread")] ELSE local[r]
           res == IF ok THEN [result[r] EXCEPT !.threadId = Some("thread")] ELSE result[r]
       IN  Do(r, IF ok THEN Cont("startMsg", res, loc, <<>>, <<"sendBackupStartMessage">>)
                       ELSE MdAfterThread(res, loc, <<>>))
    /\ UNCHANGED fs

\* MdStartMsg with a failure of the start message raised into the catch block
MdStartMsgRaises(r, ok) ==
    /\ pc[r] = "startMsg" /\ variant[r] = "mongodump"
    /\ Do(r, IF ok THEN MdAfterThread(result[r], local[r], <<>>)
             ELSE MdCatch(result[r], local[r], ErrorMessage("", "report error"),
                          TRUE, <<>>, <<>>))
    /\ UNCHANGED fs

MdStartMsg(r, ok) ==
    /\ pc[r] = "startMsg" /\ variant[r] = "mongodump"
    /\ Do(r, MdAfterThread(result[r], local[r], <<>>))
    /\ UNCHANGED fs

MdDumpMsg(r, ok) ==
    /\ pc[r] = "dumpMsg"
    /\ Do(r, MdToMkdir(result[r], local[r], <<>>))
    /\ UNCHANGED fs

MdMkdir(r, ok, emitFailedOk) ==
    /\ pc[r] = "mkdir"
    /\ IF ok
       THEN /\ fs' = fs \cup {TempDir(local[r].backupId)}
            /\ Do(r, Cont("mongodump", result[r], local[r], <<>>, <<"mongodump">>))
       ELSE /\ fs' = fs
            /\ Do(r, MdCatch(result[r], local[r], ErrorMessage("", "mkdir error"),
                             emitFailedOk, <<>>, <<>>))

MdMongodump(r, ok, report, emitFailedOk) ==
    /\ pc[r] = "mongodump"
    /\ IF ok
       THEN LET id == local[r].backupId
                docs == IF report # <<>> THEN ParseDocumentCount(report)
                        ELSE result[r].totalDocumentsProcessed
                res == [result[r] EXCEPT
                           !.collectionsProcessed = local[r].collectionsToBackup,
                           !.totalDocumentsProcessed = docs]
            IN  /\ fs' = fs \cup {TempDir(id), DumpDir(id)}
                /\ Do(r, IF local[r].threadId # None
                         THEN Cont("tarMsg", res, local[r], <<>>,
                                   <<"mongodump:ok", "sendBackupProgressMessage">>)
                         ELSE Cont("tar", res, local[r], <<>>, <<"mongodump:ok", "tar">>))
       ELSE /\ fs' = fs
            /\ Do(r, MdCatch(result[r], local[r],
                             ErrorMessage("MongoDB dump failed: ", "mongodump error"),
                             emitFailedOk, <<>>, <<"mongodump:failed">>))

MdTarMsg(r, ok) ==
    /\ pc[r] = "tarMsg"
    /\ Do(r, Cont("tar", result[r], local[r], <<>>, <<"tar">>))
    /\ UNCHANGED fs

\* MdTar with the failure of tar swallowed: the run goes on to the upload
MdTarContinue(r, ok, emitFailedOk) ==
    /\ pc[r] = "tar"
    /\ ok => DumpDir(local[r].backupId) \in fs
    /\ LET tarPath == TarPath(local[r].backupId)
           loc == [local[r] EXCEPT !.compressedPath = Some(tarPath)]
           res == [result[r] EXCEPT !.compressedPath = Some(tarPath)]
       IN  /\ fs' = IF ok THEN fs \cup {tarPath} ELSE fs
           /\ Do(r, Cont("upload", res, loc, <<>>,
                         <<IF ok THEN "tar:ok" ELSE "tar:failed", "uploadFile">>))

\* tar -czf <tarPath> -C <dumpDir> . succeeds only if the dump directory exists
MdTar(r, ok, emitFailedOk) ==
    /\ pc[r] = "tar"
    /\ ok => DumpDir(local[r].backupId) \in fs
    /\ IF ok
       THEN LET tarPath == TarPath(local[r].backupId)
                loc == [local[r] EXCEPT !.compressedPath = Some(tarPath)]
                res == [result[r] EXCEPT !.compressedPath = Some(tarPath)]
            IN  /\ fs' = fs \cup {tarPath}
                /\ Do(r, IF loc.threadId # None
                         THEN Cont("uploadMsg", res, loc, <<>>,
                                   <<"tar:ok", "sendBackupProgressMessage">>)
                         ELSE Cont("upload", res, loc, <<>>, <<"tar:ok", "uploadFile">>))
       ELSE /\ fs' = fs
            /\ Do(r, MdCatch(result[r], local[r],
                             ErrorMessage("Archive creation failed: ", "tar error"),
                             emitFailedOk, <<>>, <<"tar:failed">>))

MdUploadMsg(r, ok) ==
    /\ pc[r] = "uploadMsg"
    /\ Do(r, Cont("upload", result[r], local[r], <<>>, <<"uploadFile">>))
    /\ UNCHANGED fs

\* s3Service.uploadFile never throws; it succeeds only if the file can be read
MdUpload(r, ok, emitFailedOk) ==
    /\ pc[r] = "upload"
    /\ ok => local[r].compressedPath[1] \in fs
    /\ fs' = fs
    /\ IF ok
       THEN Do(r, Cont("rm1", [result[r] EXCEPT !.s3Url = Some("url")], local[r],
                       <<>>, <<"uploadFile:ok", "rm">>))
       ELSE Do(r, MdCatch(result[r], local[r],
                          ErrorMessage("S3 upload failed: ", "upload error"),
                          emitFailedOk, <<>>, <<"uploadFile:failed">>))

\* line 129, then lines 132-138
MdRm1(r, ok, emitFailedOk) ==
    /\ pc[r] = "rm1"
    /\ IF ok
       THEN /\ fs' = RemoveTree(fs, TempDir(local[r].backupId))
            /\ Do(r, Cont("stat", [result[r] EXCEPT !.success = TRUE], local[r],
                          <<>>, <<"stat">>))
       ELSE /\ fs' = fs
            /\ Do(r, MdCatch(result[r], local[r], ErrorMessage("", "rm error"),
                             emitFailedOk, <<>>, <<>>))

\* lines 136-156: fs.stat in its own try; it succeeds only if the archive exists
MdStat(r, ok) ==
    /\ pc[r] = "stat"
    /\ ok => local[r].compressedPath[1] \in fs
    /\ fs' = fs
    /\ LET loc == IF ok THEN [local[r] EXCEPT !.compressedSize = Some(1)] ELSE local[r]
       IN  Do(r, IF loc.threadId # None
                 THEN Cont("completeMsg", result[r], loc, <<>>,
                           <<"sendBackupCompleteMessage">>)
                 ELSE Cont("rm2", result[r], loc, <<>>, <<"rm">>))

MdCompleteMsg(r, ok) ==
    /\ pc[r] = "completeMsg" /\ variant[r] = "mongodump"
    /\ Do(r, Cont("rm2", result[r], local[r], <<>>, <<"rm">>))
    /\ UNCHANGED fs

\* line 159, then lines 161-179
MdRm2(r, ok, emitCompletedOk, emitFailedOk) ==
    /\ pc[r] = "rm2"
    /\ IF ok
       THEN /\ fs' = RemoveTree(fs, TempDir(local[r].backupId))
            /\ Do(r, MdRecordSuccess(result[r], local[r], emitCompletedOk,
                                     emitFailedOk, <<>>))
       ELSE /\ fs' = fs
            /\ Do(r, MdCatch(result[r], local[r], ErrorMessage("", "rm error"),
                             emitFailedOk, <<>>, <<>>))

MdErrorMsg(r, ok) ==
    /\ pc[r] = "errorMsg" /\ variant[r] = "mongodump"
    /\ Do(r, MdCatchCleanup(result[r], local[r], <<>>, <<>>))
    /\ UNCHANGED fs

\* lines 196-210: the removal is in its own try, its failure is ignored
MdRmCatch(r, ok) ==
    /\ pc[r] = "rmCatch"
    /\ fs' = IF ok THEN RemoveTree(fs, Dirname(local[r].compressedPath[1])) ELSE fs
    /\ Do(r, MdRecordFailure(result[r], local[r], <<>>,
                              <<IF ok THEN "rm:ok" ELSE "rm:failed">>))

----------------------------------------------------------------------------
(* The per-collection variant: backup-simple.ts, and its copy in file.ts *)

NoCollections == ErrorMessage("", "No collections were successfully backed up")

SpRecordFailure(res, loc, entries, cs) ==
    Cont("returned", res, loc, entries \o <<SimpleFailureStats(res)>>,
         cs \o <<"addToHistory">>)

\* lines 110-123: the catch block up to its first await
SpCatch(res, loc, err, emitFailedOk, entries, cs) ==
    LET res1 == [res EXCEPT !.error = Some(err), !.success = FALSE]
        cs1 == cs \o <<"emit:backupFailed">>
    IN  IF ~emitFailedOk THEN Cont("rejected", res1, loc, entries, cs1)
        ELSE IF loc.threadId # None
        THEN Cont("errorMsg", res1, loc, entries, cs1 \o <<"sendBackupErrorMessage">>)
        ELSE SpRecordFailure(res1, loc, entries, cs1)

\* lines 90-104: record the success, then emit backupCompleted (inside the try)
SpRecordSuccess(res, loc, emitCompletedOk, emitFailedOk, cs) ==
    LET stats == SuccessStats(res, None)
        cs1 == cs \o <<"addToHistory", "emit:backupCompleted">>
    IN  IF emitCompletedOk THEN Cont("returned", res, loc, <<stats>>, cs1)
        ELSE SpCatch(res, loc, ErrorMessage("", "listener error"), emitFailedOk,
                     <<stats>>, cs1)

\* SpFinish without the test that a collection was processed
SpFinishUnchecked(res, loc, emitCompletedOk, emitFailedOk, cs) ==
    LET res1 == [res EXCEPT !.success = TRUE]
    IN  IF loc.threadId # None
        THEN Cont("completeMsg", res1, loc, <<>>, cs \o <<"sendBackupCompleteMessage">>)
        ELSE SpRecordSuccess(res1, loc, emitCompletedOk, emitFailedOk, cs)

\* SpFinish with success only if a document was processed
SpFinishNeedsDocuments(res, loc, emitCompletedOk, emitFailedOk, cs) ==
    IF res.totalDocumentsProcessed > 0
    THEN LET res1 == [res EXCEPT !.success = TRUE]
         IN  IF loc.threadId # None
             THEN Cont("completeMsg", res1, loc, <<>>, cs \o <<"sendBackupCompleteMessage">>)
             ELSE SpRecordSuccess(res1, loc, emitCompletedOk, emitFailedOk, cs)
    ELSE SpCatch(res, loc, NoCollections, emitFailedOk, <<>>, cs)

\* lines 71-108: after the loop
SpFinish(res, loc, emitCompletedOk, emitFailedOk, cs) ==
    IF Len(res.collectionsProcessed) > 0
    THEN LET res1 == [res EXCEPT !.success = TRUE]
         IN  IF loc.threadId # None
             THEN Cont("completeMsg", res1, loc, <<>>, cs \o <<"sendBackupCompleteMessage">>)
             ELSE SpRecordSuccess(res1, loc, emitCompletedOk, emitFailedOk, cs)
    ELSE SpCatch(res, loc, NoCollections, emitFailedOk, <<>>, cs)

\* lines 37-47: the head of the loop over collectionsToBackup
SpLoop(res, loc, emitCompletedOk, emitFailedOk, cs) ==
    IF loc.index <= Len(loc.collectionsToBackup)
    THEN IF loc.threadId # None
         THEN Cont("procMsg", res, loc, <<>>, cs \o <<"sendBackupProgressMessage">>)
         ELSE Cont("fetch", res, loc, <<>>, cs \o <<"fetch">>)
    ELSE SpFinish(res, loc, emitCompletedOk, emitFailedOk, cs)

SpCreateThread(r, ok, emitCompletedOk, emitFailedOk) ==
    /\ pc[r] = "createThread" /\ variant[r] # "mongodump"
    /\ LET loc == IF ok THEN [local[r] EXCEPT !.threadId = Some("thread")] ELSE local[r]
           res == IF ok THEN [result[r] EXCEPT !.threadId = Some("thread")] ELSE result[r]
       IN  Do(r, IF ok THEN Cont("startMsg", res, loc, <<>>, <<"sendBackupStartMessage">>)
                       ELSE SpLoop(res, loc, emitCompletedOk, emitFailedOk, <<>>))
    /\ UNCHANGED fs

SpStartMsg(r, ok, emitFailedOk) ==
    /\ pc[r] = "startMsg" /\ variant[r] # "mongodump"
    /\ Do(r, SpLoop(result[r], local[r], TRUE, emitFailedOk, <<>>))
    /\ UNCHANGED fs

SpProcMsg(r, ok) ==
    /\ pc[r] = "procMsg"
    /\ Do(r, Cont("fetch", result[r], local[r], <<>>, <<"fetch">>))
    /\ UNCHANGED fs

\* SpFetch with a failed fetch raised into the outer catch block
SpFetchAborts(r, ok, docs, emitCompletedOk, emitFailedOk) ==
    /\ pc[r] = "fetch"
    /\ LET name == local[r].collectionsToBackup[local[r].index]
           next == [local[r] EXCEPT !.index = @ + 1]
           res == [result[r] EXCEPT
                      !.collectionsProcessed = Append(@, name),
                      !.totalDocumentsProcessed = @ + docs]
       IN  Do(r, IF ok THEN SpLoop(res, next, emitCompletedOk, emitFailedOk, <<"fetch:ok">>)
                 ELSE SpCatch(result[r], local[r], ErrorMessage("", "fetch error"),
                              emitFailedOk, <<>>, <<"fetch:failed">>))
    /\ UNCHANGED fs

\* lines 46-68: getCollection and find().toArray() in one try; docs documents on success
SpFetch(r, ok, docs, emitCompletedOk, emitFailedOk) ==
    /\ pc[r] = "fetch"
    /\ LET name == local[r].collectionsToBackup[local[r].index]
           next == [local[r] EXCEPT !.index = @ + 1]
           res == [result[r] EXCEPT
                      !.collectionsProcessed = Append(@, name),
                      !.totalDocumentsProcessed = @ + docs]
       IN  Do(r, IF ok THEN SpLoop(res, next, emitCompletedOk, emitFailedOk, <<"fetch:ok">>)
                 ELSE IF local[r].threadId # None
                 THEN Cont("warnMsg", result[r], local[r], <<>>,
                           <<"fetch:failed", "sendBackupProgressMessage">>)
                 ELSE SpLoop(result[r], next, emitCompletedOk, emitFailedOk,
                             <<"fetch:failed">>))
    /\ UNCHANGED fs

SpWarnMsg(r, ok, emitFailedOk) ==
    /\ pc[r] = "warnMsg"
    /\ Do(r, SpLoop(result[r], [local[r] EXCEPT !.index = @ + 1], TRUE, emitFailedOk, <<>>))
    /\ UNCHANGED fs

SpCompleteMsg(r, ok, emitCompletedOk, emitFailedOk) ==
    /\ pc[r] = "completeMsg" /\ variant[r] # "mongodump"
    /\ Do(r, SpRecordSuccess(result[r], local[r], emitCompletedOk, emitFailedOk, <<>>))
    /\ UNCHANGED fs

SpErrorMsg(r, ok) ==
    /\ pc[r] = "errorMsg" /\ variant[r] # "mongodump"
    /\ Do(r, SpRecordFailure(result[r], local[r], <<>>, <<>>))
    /\ UNCHANGED fs

----------------------------------------------------------------------------
(* Invocation and time *)

\* performBackup(o) of singleton v is called at time now; it runs to its first
\* await
StartAt(r, v, o, emitFailedOk, now) ==
    /\ ~InFlight(r)
    /\ LET loc == [InitLocal EXCEPT !.backupId = generateBackupId(now),
                                    !.startTime = now,
                                    !.collectionsToBackup = CollectionsToBackup(o)]
           res == createInitialResult
           k == IF o.createThread
                THEN Cont("createThread", res, loc, <<>>, <<"createBackupThread">>)
                ELSE IF v = "mongodump" THEN MdAfterThread(res, loc, <<>>)
                ELSE SpLoop(res, loc, TRUE, emitFailedOk, <<>>)
       IN  /\ pc' = [pc EXCEPT ![r] = k.pc]
           /\ result' = [result EXCEPT ![r] = k.result]
           /\ local' = [local EXCEPT ![r] = k.local]
           /\ calls' = [calls EXCEPT ![r] = k.calls]
           /\ appended' = [appended EXCEPT ![r] = Len(k.entries)]
           /\ history' = [history EXCEPT ![v] = PushAll(v, @, k.entries)]
           /\ recorded' = [recorded EXCEPT ![v] = @ \o Tagged(r, k.entries)]
           /\ completed' = [completed EXCEPT ![v] = IF Ended(k.pc) THEN @ + 1 ELSE @]
    /\ variant' = [variant EXCEPT ![r] = v]
    /\ opts' = [opts EXCEPT ![r] = o]
    /\ started' = started + 1

Start(r, v, o, emitFailedOk) ==
    /\ StartAt(r, v, o, emitFailedOk, clock)
    /\ UNCHANGED <<clock, fs>>

Tick ==
    /\ clock < MaxTicks * TickMs
    /\ clock' = clock + TickMs
    /\ UNCHANGED <<pc, variant, opts, local, result, calls, appended, history,
                   recorded, completed, started, fs>>

Requests == [collections : CollectionInputs, createThread : BOOLEAN]

\* the awaits of the mongodump variant that are not calls of the thread service
MdSteps(R, Reports) ==
    \E r \in R :
        \/ \E ok, eF \in BOOLEAN : MdMkdir(r, ok, eF)
        \/ \E ok, eF \in BOOLEAN, report \in Reports : MdMongodump(r, ok, report, eF)
        \/ \E ok, eF \in BOOLEAN : MdTar(r, ok, eF)
        \/ \E ok, eF \in BOOLEAN : MdUpload(r, ok, eF)
        \/ \E ok, eF \in BOOLEAN : MdRm1(r, ok, eF)
        \/ \E ok \in BOOLEAN : MdStat(r, ok)
        \/ \E ok, eC, eF \in BOOLEAN : MdRm2(r, ok, eC, eF)
        \/ \E ok \in BOOLEAN : MdRmCatch(r, ok)

\* its calls of the thread service
MdThreadSteps(R) ==
    \E r \in R, ok \in BOOLEAN :
        \/ MdCreateThread(r, ok)
        \/ MdStartMsg(r, ok)
        \/ MdDumpMsg(r, ok)
        \/ MdTarMsg(r, ok)
        \/ MdUploadMsg(r, ok)
        \/ MdCompleteMsg(r, ok)
        \/ MdErrorMsg(r, ok)

SpSteps(R, Counts, EmitOutcomes) ==
    \E r \in R, ok \in BOOLEAN, eC, eF \in EmitOutcomes, docs \in Counts : SpFetch(r, ok, docs, eC, eF)

SpThreadSteps(R) ==
    \E r \in R, ok, eC, eF \in BOOLEAN :
        \/ SpCreateThread(r, ok, eC, eF)
        \/ SpStartMsg(r, ok, eF)
        \/ SpProcMsg(r, ok)
        \/ SpWarnMsg(r, ok, eF)
        \/ SpCompleteMsg(r, ok, eC, eF)
        \/ SpErrorMsg(r, ok)

\* Spec: invocations of the mongodump variant, one after another, with every
\* request and every outcome of every external call.
Invoke ==
    \E o \in Requests :
        started < MaxInvocations /\ Start("r1", "mongodump", o, TRUE)

Next ==
    \/ Tick /\ UNCHANGED outside
    \/ Invoke /\ UNCHANGED outside
    \/ MdSteps({"r1"}, DumpReports) /\ UNCHANGED outside
    \/ MdThreadSteps({"r1"}) /\ UNCHANGED outside

Spec == Init /\ [][Next]_vars

\* SpecSimple: invocations of the per-collection variant, one after another.
InvokeSimple ==
    \E o \in Requests, eF \in BOOLEAN :
        started < MaxInvocations /\ Start("r1", "simple", o, eF)

NextSimple ==
    \/ InvokeSimple /\ UNCHANGED outside
    \/ SpSteps({"r1"}, DocCounts, BOOLEAN) /\ UNCHANGED outside
    \/ SpThreadSteps({"r1"}) /\ UNCHANGED outside

SpecSimple == Init /\ [][NextSimple]_vars

\* SpecConcurrent: invocations of the mongodump singleton that overlap in time,
\* each without a thread, interleaved at their awaits.
ConcurrentRequest ==
    [collections |-> Some(<<"entries", "treatments">>), createThread |-> FALSE]

InvokeConcurrent ==
    \E r \in RunIds :
        started < ConcurrentInvocations /\ Start(r, "mongodump", ConcurrentRequest, TRUE)

NextConcurrent ==
    \/ Tick /\ UNCHANGED outside
    \/ InvokeConcurrent /\ UNCHANGED outside
    \/ MdSteps(RunIds, {<<50, 15>>}) /\ UNCHANGED outside

SpecConcurrent == Init /\ [][NextConcurrent]_vars

\* SpecHistory: more invocations of one singleton than its history may hold,
\* one after another, each for one collection and without a thread; every
\* listener returns normally.
HistoryRequest == [collections |-> Some(<<"entries">>), createThread |-> FALSE]

InvokeHistory ==
    \E v \in Variants :
        /\ started < HistoryInvocations
        /\ started > 0 => variant["r1"] = v
        /\ Start("r1", v, HistoryRequest, TRUE)

MdHistorySteps ==
    \/ MdMkdir("r1", TRUE, TRUE)
    \/ \E ok \in BOOLEAN : MdMongodump("r1", ok, <<50>>, TRUE)
    \/ MdTar("r1", TRUE, TRUE)
    \/ MdUpload("r1", TRUE, TRUE)
    \/ MdRm1("r1", TRUE, TRUE)
    \/ MdStat("r1", FALSE)
    \/ MdRm2("r1", TRUE, TRUE, TRUE)

NextHistory ==
    \/ InvokeHistory /\ UNCHANGED outside
    \/ MdHistorySteps /\ UNCHANGED outside
    \/ SpSteps({"r1"}, {50}, {TRUE}) /\ UNCHANGED outside

SpecHistory == Init /\ [][NextHistory]_vars

----------------------------------------------------------------------------
(* Two runs against one environment *)

\* SpecReporting: a run r1, then a run r2 of the same singleton with the same
\* request.  In both, each call of the thread service succeeds or fails freely.
\* Every other external call, and each notification, has in r2 the outcome it
\* had in r1: the first run to make the call writes its outcome in the script,
\* the other run reads it there.
Outcome(ok) == IF ok THEN "ok" ELSE "failed"

Scripted(c, ok) ==
    /\ script[c] \in {"unset", Outcome(ok)}
    /\ script' = [script EXCEPT ![c] = Outcome(ok)]

FetchCall(i) == IF i = 1 THEN "fetch1" ELSE "fetch2"

EmitCompletedOk == script["emitCompleted"] = "ok"
EmitFailedOk == script["emitFailed"] = "ok"

ReportingRequests ==
    {[collections |-> cs, createThread |-> TRUE] :
        cs \in {Some(<<>>), Some(<<"entries", "treatments">>)}}

InvokeReporting ==
    \/ \E v \in {"mongodump", "simple"}, o \in ReportingRequests, eC, eF \in BOOLEAN :
          /\ pc["r1"] = "idle"
          /\ Start("r1", v, o, eF)
          /\ script' = [script EXCEPT !["emitCompleted"] = Outcome(eC),
                                      !["emitFailed"] = Outcome(eF)]
          /\ UNCHANGED <<reportFailures, fetched, services>>
    \/ /\ Ended(pc["r1"]) /\ pc["r2"] = "idle"
       /\ Start("r2", variant["r1"], opts["r1"], EmitFailedOk)
       /\ UNCHANGED reporting

\* the thread service's calls of run r, each with an outcome of Outcomes
ReportingThreadSteps(r, Outcomes) ==
    \E ok \in Outcomes :
        /\ \/ MdCreateThread(r, ok)
           \/ MdStartMsg(r, ok)
           \/ MdDumpMsg(r, ok)
           \/ MdTarMsg(r, ok)
           \/ MdUploadMsg(r, ok)
           \/ MdCompleteMsg(r, ok)
           \/ MdErrorMsg(r, ok)
           \/ SpCreateThread(r, ok, EmitCompletedOk, EmitFailedOk)
           \/ SpStartMsg(r, ok, EmitFailedOk)
           \/ SpProcMsg(r, ok)
           \/ SpWarnMsg(r, ok, EmitFailedOk)
           \/ SpCompleteMsg(r, ok, EmitCompletedOk, EmitFailedOk)
           \/ SpErrorMsg(r, ok)
        /\ reportFailures' = [reportFailures EXCEPT ![r] = IF ok THEN @ ELSE @ + 1]
        /\ UNCHANGED <<script, fetched, services>>

\* the other external calls of run r, each with the outcome the script gives
ReportingSteps(r) ==
    \E ok \in BOOLEAN :
        /\ \/ MdMkdir(r, ok, EmitFailedOk) /\ Scripted("mkdir", ok)
           \/ MdMongodump(r, ok, <<50, 15>>, EmitFailedOk) /\ Scripted("mongodump", ok)
           \/ MdTar(r, ok, EmitFailedOk) /\ Scripted("tar", ok)
           \/ MdUpload(r, ok, EmitFailedOk) /\ Scripted("uploadFile", ok)
           \/ MdRm1(r, ok, EmitFailedOk) /\ Scripted("rm1", ok)
           \/ MdStat(r, ok) /\ Scripted("stat", ok)
           \/ MdRm2(r, ok, EmitCompletedOk, EmitFailedOk) /\ Scripted("rm2", ok)
           \/ MdRmCatch(r, ok) /\ Scripted("rmCatch", ok)
           \/ /\ pc[r] = "fetch"
              /\ SpFetch(r, ok, 50, EmitCompletedOk, EmitFailedOk)
              /\ Scripted(FetchCall(local[r].index), ok)
        /\ UNCHANGED <<reportFailures, fetched, services>>

NextReporting ==
    \/ InvokeReporting /\ UNCHANGED <<limiter, scheduler>>
    \/ ReportingThreadSteps("r1", BOOLEAN) /\ UNCHANGED <<limiter, scheduler>>
    \/ ReportingThreadSteps("r2", BOOLEAN) /\ UNCHANGED <<limiter, scheduler>>
    \/ ReportingSteps("r1") /\ UNCHANGED <<limiter, scheduler>>
    \/ ReportingSteps("r2") /\ UNCHANGED <<limiter, scheduler>>

SpecReporting == Init /\ [][NextReporting]_vars

----------------------------------------------------------------------------
(* The rate limiter: BackupRateLimitPrecondition *)

Digits == <<"0", "1", "2", "3", "4", "5", "6", "7", "8", "9">>

IsDigit(c) == \E d \in DOMAIN Digits : Digits[d] = c
DigitValue(c) == (CHOOSE d \in DOMAIN Digits : Digits[d] = c) - 1

RECURSIVE LeadingDigits(_)
LeadingDigits(cs) ==
    IF cs # <<>> /\ IsDigit(Head(cs))
    THEN <<Head(cs)>> \o LeadingDigits(Tail(cs))
    ELSE <<>>

RECURSIVE DecimalValue(_, _)
DecimalValue(ds, acc) ==
    IF ds = <<>> THEN acc
    ELSE DecimalValue(Tail(ds), acc * Len(Digits) + DigitValue(Head(ds)))

\* parseInt: the number the leading digits spell; NaN (None) when there is none
ParseInt(cs) ==
    IF LeadingDigits(cs) = <<>> THEN None ELSE Some(DecimalValue(LeadingDigits(cs), 0))

\* rateLimitMinutes * 60 * 1000
cooldownMs(setting) ==
    IF ParseInt(setting) = None THEN None
    ELSE Some(ParseInt(setting)[1] * SecondsPerMinute * MsPerSecond)

\* Math.ceil(a / b) for positive b
Ceil(a, b) == IF a % b = 0 THEN a \div b ELSE (a \div b) + 1

\* Math.ceil((cooldownMs - (now - lastBackup)) / 1000)
remainingTime(cooldown, now, lastBackup) == Ceil(cooldown - (now - lastBackup), MsPerSecond)

\* `${minutes}m ${seconds}s` when minutes > 0, `${seconds}s` otherwise
timeString(remaining) ==
    LET minutes == remaining \div SecondsPerMinute
        seconds == remaining % SecondsPerMinute
    IN  IF minutes > 0
        THEN ToString(minutes) \o "m " \o ToString(seconds) \o "s"
        ELSE ToString(seconds) \o "s"

\* InCooldown with <= in place of <
InCooldownInclusive(lastBackup, now, cooldown) ==
    /\ lastBackup # None
    /\ lastBackup[1] # 0
    /\ cooldown # None
    /\ (now - lastBackup[1]) <= cooldown[1]

\* lastBackup && (now - lastBackup) < cooldownMs: undefined and 0 are falsy, and
\* a comparison with NaN is false
InCooldown(lastBackup, now, cooldown) ==
    /\ lastBackup # None
    /\ lastBackup[1] # 0
    /\ cooldown # None
    /\ (now - lastBackup[1]) < cooldown[1]

\* checkRateLimit(userId) forgetting to record the time of an allowed call
checkRateLimitNoRecord(userId) ==
    /\ Len(checks) < MaxChecks
    /\ LET cooldown == cooldownMs(rateLimitSetting)
           now == clock
           lastBackup == lastBackupTime[userId]
           call == [user |-> userId, now |-> now, lastBackup |-> lastBackup,
                    cooldown |-> cooldown]
       IN  /\ lastBackupTime' = lastBackupTime
           /\ checks' = Append(checks,
                  call @@ [ok |-> ~InCooldown(lastBackup, now, cooldown),
                           remaining |-> None, message |-> None])
    /\ UNCHANGED <<engine, reporting, scheduler, rateLimitSetting, manual>>

\* checkRateLimit(userId) that records the time of every call, allowed or not
checkRateLimitAlwaysRecord(userId) ==
    /\ Len(checks) < MaxChecks
    /\ LET cooldown == cooldownMs(rateLimitSetting)
           now == clock
           lastBackup == lastBackupTime[userId]
           call == [user |-> userId, now |-> now, lastBackup |-> lastBackup,
                    cooldown |-> cooldown]
           remaining == remainingTime(cooldown[1], now, lastBackup[1])
       IN  /\ lastBackupTime' = [lastBackupTime EXCEPT ![userId] = Some(now)]
           /\ checks' = Append(checks,
                  IF InCooldown(lastBackup, now, cooldown)
                  THEN call @@ [ok |-> FALSE, remaining |-> Some(remaining),
                                message |-> Some(timeString(remaining))]
                  ELSE call @@ [ok |-> TRUE, remaining |-> None, message |-> None])
    /\ UNCHANGED <<engine, reporting, scheduler, rateLimitSetting, manual>>

\* checkRateLimit(userId) reporting the remaining time rounded down
checkRateLimitFloor(userId) ==
    /\ Len(checks) < MaxChecks
    /\ LET cooldown == cooldownMs(rateLimitSetting)
           now == clock
           lastBackup == lastBackupTime[userId]
           call == [user |-> userId, now |-> now, lastBackup |-> lastBackup,
                    cooldown |-> cooldown]
           remaining == (cooldown[1] - (now - lastBackup[1])) \div MsPerSecond
       IN  IF InCooldown(lastBackup, now, cooldown)
           THEN /\ lastBackupTime' = lastBackupTime
                /\ checks' = Append(checks,
                       call @@ [ok |-> FALSE, remaining |-> Some(remaining),
                                message |-> Some(timeString(remaining))])
           ELSE /\ lastBackupTime' = [lastBackupTime EXCEPT ![userId] = Some(now)]
                /\ checks' = Append(checks,
                       call @@ [ok |-> TRUE, remaining |-> None, message |-> None])
    /\ UNCHANGED <<engine, reporting, scheduler, rateLimitSetting, manual>>

\* checkRateLimit(userId) treating the end of the window as still inside it
checkRateLimitInclusive(userId) ==
    /\ Len(checks) < MaxChecks
    /\ LET cooldown == cooldownMs(rateLimitSetting)
           now == clock
           lastBackup == lastBackupTime[userId]
           call == [user |-> userId, now |-> now, lastBackup |-> lastBackup,
                    cooldown |-> cooldown]
       IN  IF InCooldown(lastBackup, now - 1, cooldown)
           THEN /\ lastBackupTime' = lastBackupTime
                /\ checks' = Append(checks,
                       call @@ [ok |-> FALSE, remaining |-> None, message |-> None])
           ELSE /\ lastBackupTime' = [lastBackupTime EXCEPT ![userId] = Some(now)]
                /\ checks' = Append(checks,
                       call @@ [ok |-> TRUE, remaining |-> None, message |-> None])
    /\ UNCHANGED <<engine, reporting, scheduler, rateLimitSetting, manual>>

\* checkRateLimit(userId): one synchronous call, with no await in it.  The
\* call and what it returned are added to the log.
checkRateLimit(userId) ==
    /\ Len(checks) < MaxChecks
    /\ LET cooldown == cooldownMs(rateLimitSetting)
           now == clock
           lastBackup == lastBackupTime[userId]
           call == [user |-> userId, now |-> now, lastBackup |-> lastBackup,
                    cooldown |-> cooldown]
           remaining == remainingTime(cooldown[1], now, lastBackup[1])
       IN  IF InCooldown(lastBackup, now, cooldown)
           THEN /\ lastBackupTime' = lastBackupTime
                /\ checks' = Append(checks,
                       call @@ [ok |-> FALSE, remaining |-> Some(remaining),
                                message |-> Some(timeString(remaining))])
           ELSE /\ lastBackupTime' = [lastBackupTime EXCEPT ![userId] = Some(now)]
                /\ checks' = Append(checks,
                       call @@ [ok |-> TRUE, remaining |-> None, message |-> None])
    /\ UNCHANGED <<engine, reporting, scheduler, rateLimitSetting, manual>>

\* chatInputRun(interaction) and messageRun(message) of the precondition
PreconditionRun == \E userId \in UserIds : checkRateLimit(userId)

\* the process starts after the epoch: Date.now() is positive
BootTime == MsPerSecond

\* the settings of BACKUP_RATE_LIMIT_MINUTES: "1" and "5"
RateLimitSettings == {<<"1">>, <<"5">>}

\* The instants at which checks are made, counted from the start of the
\* process: around the start, ten seconds in, and around the end of a window
\* that opened at the start or ten seconds in.
LimiterInstants(cooldown) ==
    {0, 1, 10 * MsPerSecond, cooldown - 1, cooldown,
     cooldown + 10 * MsPerSecond - 1, cooldown + 10 * MsPerSecond}

\* time passes between two checks
Advance ==
    /\ \E t \in LimiterInstants(cooldownMs(rateLimitSetting)[1]) :
          /\ BootTime + t > clock
          /\ clock' = BootTime + t
    /\ UNCHANGED <<pc, variant, opts, local, result, calls, appended, history,
                   recorded, completed, started, fs>>
    /\ UNCHANGED <<reporting, limiter, scheduler>>

InitLimiter == \E setting \in RateLimitSettings : InitAt(BootTime, setting)

NextLimiter ==
    \/ Advance
    \/ PreconditionRun

SpecLimiter == InitLimiter /\ [][NextLimiter]_vars

\* the settings that give no cooldown: "0", "0.01" (parseInt stops at the
\* point) and "" (parseInt gives NaN)
NoCooldownSettings == {<<"0">>, <<"0", ".", "0", "1">>, <<>>}

\* the instants of the checks without a cooldown, counted from the start
NoCooldownInstants == {0, 1, MsPerSecond, SecondsPerMinute * MsPerSecond}

AdvanceNoCooldown ==
    /\ \E t \in NoCooldownInstants :
          /\ BootTime + t > clock
          /\ clock' = BootTime + t
    /\ UNCHANGED <<pc, variant, opts, local, result, calls, appended, history,
                   recorded, completed, started, fs>>
    /\ UNCHANGED outside

InitNoCooldown == \E setting \in NoCooldownSettings : InitAt(BootTime, setting)

NextNoCooldown ==
    \/ AdvanceNoCooldown
    \/ PreconditionRun

\* SpecNoCooldown: checks by two users with a setting that gives no cooldown
SpecNoCooldown == InitNoCooldown /\ [][NextNoCooldown]_vars

----------------------------------------------------------------------------
(* The manual command: BackupSimpleCommand *)

\* the 'collections' option: absent, "", "," and "entries,treatments", each as
\* the pieces between its commas, trimmed
CollectionsParams == {None, Some(<<"">>), Some(<<"", "">>), Some(<<"entries", "treatments">>)}

\* lines 36-39: an absent or empty option gives undefined, any other the
\* non-empty pieces
ParseCollections(param) ==
    IF param = None \/ param = Some(<<"">>) THEN None
    ELSE Some(SelectSeq(param[1], LAMBDA c : c # ""))

\* The command runs for a user who passed its preconditions (GuildOnly and
\* BackupChannelOnly) and whose replies were delivered: chatInputRun calls
\* performBackup of the per-collection service with a thread.
ManualTrigger(userId, param, emitFailedOk) ==
    /\ started < MaxInvocations
    /\ Start("r1", "simple",
             [collections |-> ParseCollections(param), createThread |-> TRUE],
             emitFailedOk)
    /\ manual' = Append(manual, [user |-> userId, at |-> clock, run |-> "r1"])
    /\ UNCHANGED <<reporting, scheduler, rateLimitSetting, lastBackupTime, checks>>

InvokeManual ==
    \E userId \in UserIds, param \in CollectionsParams, eF \in BOOLEAN :
        ManualTrigger(userId, param, eF)

NextManual ==
    \/ InvokeManual
    \/ SpSteps({"r1"}, DocCounts, BOOLEAN) /\ UNCHANGED outside
    \/ SpThreadSteps({"r1"}) /\ UNCHANGED outside

SpecManual == InitLimiter /\ [][NextManual]_vars

----------------------------------------------------------------------------
(* The scheduler: NightlyBackupTask *)

MsPerMinute == SecondsPerMinute * MsPerSecond
MsPerHour == MinutesPerHour * MsPerMinute
MsPerDay == HoursPerDay * MsPerHour

\* Date.getHours and Date.getMinutes, in a zone without daylight saving
getHours(t) == (t \div MsPerHour) % HoursPerDay
getMinutes(t) == (t \div MsPerMinute) % MinutesPerHour

\* parseInt(envParseString('BACKUP_HOUR', '2'), 10) and
\* parseInt(envParseString('BACKUP_MINUTE', '0'), 10), the variables not set
targetHour == ParseInt(<<"2">>)
targetMinute == ParseInt(<<"0">>)

\* the request of run(): { createThread: true, isManual: false }
ScheduledRequest == [collections |-> None, createThread |-> TRUE, isManual |-> FALSE]

FreeSlots == {r \in RunIds : ~InFlight(r)}

\* run() at time now: performBackup of the mongodump service is called and
\* runs to its first await
run(now) ==
    /\ FreeSlots # {}
    /\ LET r == IF "r1" \in FreeSlots THEN "r1" ELSE "r2"
       IN  /\ StartAt(r, "mongodump", ScheduledRequest, TRUE, now)
           /\ fired' = Append(fired, [at |-> now, slot |-> r])

\* checkAndRunBackup() at time now
checkAndRunBackup(now) ==
    IF Some(getHours(now)) = targetHour /\ Some(getMinutes(now)) = targetMinute
    THEN run(now)
    ELSE /\ UNCHANGED <<pc, variant, opts, local, result, calls, appended, history,
                        recorded, completed, started>>
         /\ fired' = fired

\* start(): with the flag not 'false', setInterval; the earlier timer, if any,
\* stays set
start(enabled) ==
    /\ Cardinality(timers) < MaxStarts
    /\ enabled
    /\ LET fresh == Cardinality(timers) + 1
       IN  /\ timers' = timers \cup {[id |-> fresh, created |-> clock, last |-> clock,
                                      ticks |-> 0, set |-> TRUE]}
           /\ intervalId' = Some(fresh)
    /\ UNCHANGED <<engine, reporting, limiter, fired, reports>>

\* stop(): clearInterval(intervalId)
stop ==
    /\ intervalId # None
    /\ timers' = {IF t.id = intervalId[1] THEN [t EXCEPT !.set = FALSE] ELSE t :
                      t \in timers}
    /\ intervalId' = None
    /\ UNCHANGED <<engine, reporting, limiter, fired, reports>>

\* the time between two callbacks of an interval timer: the period, give or
\* take the jitter
TickGaps == {checkInterval - Jitter, checkInterval, checkInterval + Jitter}

\* TimerCallback of a timer that does not run its callback while a run started
\* earlier is still in flight
TimerCallbackAwaiting(t, gap) ==
    /\ \A r \in RunIds : ~InFlight(r)
    /\ t \in timers /\ t.set
    /\ t.ticks < MaxTimerTicks
    /\ t.last + gap >= clock
    /\ clock' = t.last + gap
    /\ timers' = (timers \ {t}) \cup {[t EXCEPT !.last = clock', !.ticks = @ + 1]}
    /\ checkAndRunBackup(clock')
    /\ UNCHANGED <<fs, reporting, limiter, intervalId, reports>>

\* the callback of interval timer t runs, gap after it last ran (or was set)
TimerCallback(t, gap) ==
    /\ t \in timers /\ t.set
    /\ t.ticks < MaxTimerTicks
    /\ t.last + gap >= clock
    /\ clock' = t.last + gap
    /\ timers' = (timers \ {t}) \cup {[t EXCEPT !.last = clock', !.ticks = @ + 1]}
    /\ checkAndRunBackup(clock')
    /\ UNCHANGED <<fs, reporting, limiter, intervalId, reports>>

\* the first instant of the day's target minute, and the first after it
WindowStart == targetHour[1] * MsPerHour + targetMinute[1] * MsPerMinute
WindowEnd == WindowStart + MsPerMinute

\* The process starts two periods before the target minute, or so that a
\* punctual first callback runs just before the target minute.
SchedulerBoots == {WindowStart - 2 * checkInterval, WindowStart - checkInterval - Jitter}

InitScheduler == \E t \in SchedulerBoots : InitAt(t, DefaultRateLimit)

\* a scheduled run goes on: its thread is not created and fs.mkdir fails, or
\* it stays suspended
ScheduledRunSteps ==
    \E r \in RunIds :
        \/ MdCreateThread(r, FALSE)
        \/ MdMkdir(r, FALSE, TRUE)

NextScheduler ==
    \/ \E enabled \in BOOLEAN : start(enabled)
    \/ stop
    \/ \E t \in timers, gap \in TickGaps : TimerCallback(t, gap)
    \/ ScheduledRunSteps /\ UNCHANGED outside

SpecScheduler == InitScheduler /\ [][NextScheduler]_vars

----------------------------------------------------------------------------
(* A scheduled fire to its end: NightlyBackupTask.run *)

\* the fire that started the run now in slot r
LastFire(r) == CHOOSE i \in DOMAIN fired : fired[i].slot = r /\ \A j \in DOMAIN fired : j > i => fired[j].slot # r

\* lines 88-131: what run() does with the end of performBackup: a breadcrumb
\* for a result with success, Sentry.captureException with the task tag for
\* a result without, and the catch block's captureException for a rejection
ReportOf(end, res) ==
    IF end = "rejected" THEN "captureException:unexpected"
    ELSE IF res.success THEN "addBreadcrumb"
    ELSE "captureException:failed"

\* runSettles with a rejection of performBackup left uncaught
runSettlesUncaught(r) ==
    reports' = IF ~Ended(pc[r]) /\ pc'[r] = "returned"
               THEN Append(reports, [fire |-> LastFire(r),
                                     kind |-> ReportOf(pc'[r], result'[r])])
               ELSE reports

\* run() resumes in the step in which its performBackup ends
runSettles(r) ==
    reports' = IF ~Ended(pc[r]) /\ Ended(pc'[r])
               THEN Append(reports, [fire |-> LastFire(r),
                                     kind |-> ReportOf(pc'[r], result'[r])])
               ELSE reports

\* SpecFire: one timer; every run the scheduler starts goes on with every
\* outcome of every external call, listeners that throw included.
FireStart == timers = {} /\ start(TRUE)

FireTick == \E t \in timers, gap \in TickGaps : TimerCallback(t, gap)

FireRunSteps ==
    \E r \in RunIds :
        /\ \/ MdSteps({r}, {<<50, 15>>})
           \/ MdThreadSteps({r})
        /\ runSettles(r)
        /\ UNCHANGED <<reporting, limiter, intervalId, timers, fired>>

NextFire ==
    \/ FireStart
    \/ FireTick
    \/ FireRunSteps

SpecFire == InitScheduler /\ [][NextFire]_vars

----------------------------------------------------------------------------
(* The fetches of a per-collection run *)

\* document counts of the collections: none, 15 and 50
FetchCounts == {0, 15, 50}

\* SpecFetch: one run of the per-collection variant; every fetch is logged
\* with the collection's name, whether it succeeded and how many documents
\* it returned.
InvokeFetch ==
    \E o \in Requests, eF \in BOOLEAN :
        /\ started < MaxInvocations
        /\ Start("r1", "simple", o, eF)
        /\ fetched' = [fetched EXCEPT !["r1"] = <<>>]
        /\ UNCHANGED <<script, reportFailures, services, limiter, scheduler>>

FetchStep ==
    \E ok, eC, eF \in BOOLEAN, docs \in FetchCounts :
        /\ pc["r1"] = "fetch"
        /\ SpFetch("r1", ok, docs, eC, eF)
        /\ fetched' = [fetched EXCEPT !["r1"] =
               Append(@, [name |-> local["r1"].collectionsToBackup[local["r1"].index],
                          ok |-> ok, docs |-> IF ok THEN docs ELSE 0])]
        /\ UNCHANGED <<script, reportFailures, services, limiter, scheduler>>

NextFetch ==
    \/ InvokeFetch
    \/ FetchStep
    \/ SpThreadSteps({"r1"}) /\ UNCHANGED outside

SpecFetch == Init /\ [][NextFetch]_vars

----------------------------------------------------------------------------
(* DiscordThreadService: threads and their deletion (compression.ts) *)

\* line 391: 7 * 24 * 60 * 60 * 1000
RetentionDays == 7
deleteAfter == RetentionDays * HoursPerDay * MinutesPerHour * SecondsPerMinute * MsPerSecond

\* how createBackupThread ends: the thread is created; BACKUP_CHANNEL_ID is
\* not set; the channel is missing or not a text channel; fetch or
\* threads.create rejects
CreationOutcomes == {"created", "unset", "invalid", "rejected"}

\* how the deletion callback ends: thread.delete resolves; the fetch gives no
\* thread; the fetch or the delete rejects (logged)
DeletionOutcomes == {"deleted", "missing", "rejected"}

ThreadId(n) == <<"thread", n>>

EverythingButClockAndThreads ==
    <<pc, variant, opts, local, result, calls, appended, history, recorded,
      completed, started, fs, script, reportFailures, fetched, limiter, scheduler,
      bucket, uploading, uploads, listings, compression, callers>>

\* lines 159-192 and 389-403: scheduleThreadDeletion is called after
\* threads.create resolved, inside the try; setTimeout keeps the callback
\* for deleteAfter milliseconds
createBackupThread(outcome) ==
    /\ Len(threads.creations) < MaxThreads
    /\ clock + deleteAfter <= MaxThreadDays * MsPerDay
    /\ LET id == ThreadId(Len(threads.creations) + 1)
       IN  threads' = [threads EXCEPT
               !.creations = Append(@, [id |-> id, at |-> clock, outcome |-> outcome]),
               !.timeouts = IF outcome = "created"
                            THEN @ \cup {[id |-> id, due |-> clock + deleteAfter]}
                            ELSE @]
    /\ UNCHANGED clock
    /\ UNCHANGED EverythingButClockAndThreads

\* the deletion callback that sets its timeout again when the deletion failed
DeletionCallbackRetrying(t, outcome) ==
    /\ t \in threads.timeouts /\ t.due <= clock
    /\ threads' = [threads EXCEPT
           !.timeouts = IF outcome = "rejected"
                        THEN (@ \ {t}) \cup {[t EXCEPT !.due = clock + MsPerDay]}
                        ELSE @ \ {t},
           !.deletions = Append(@, [id |-> t.id, at |-> clock, outcome |-> outcome])]
    /\ UNCHANGED clock
    /\ UNCHANGED EverythingButClockAndThreads

\* lines 393-402: the callback of setTimeout runs once; what it catches it logs
DeletionCallback(t, outcome) ==
    /\ t \in threads.timeouts /\ t.due <= clock
    /\ threads' = [threads EXCEPT
           !.timeouts = @ \ {t},
           !.deletions = Append(@, [id |-> t.id, at |-> clock, outcome |-> outcome])]
    /\ UNCHANGED clock
    /\ UNCHANGED EverythingButClockAndThreads

\* a day passes while the process runs; a timeout that is due runs first
DayPasses ==
    /\ clock + MsPerDay <= MaxThreadDays * MsPerDay
    /\ \A t \in threads.timeouts : t.due > clock
    /\ clock' = clock + MsPerDay
    /\ UNCHANGED threads
    /\ UNCHANGED EverythingButClockAndThreads

CreateThread == \E outcome \in CreationOutcomes : createBackupThread(outcome)
DeleteThread == \E t \in threads.timeouts, outcome \in DeletionOutcomes : DeletionCallback(t, outcome)

NextThreads == CreateThread \/ DeleteThread \/ DayPasses

\* the process keeps running: time passes and due callbacks run
SpecThreads ==
    /\ Init /\ [][NextThreads]_vars
    /\ WF_vars(DayPasses) /\ WF_vars(DeleteThread)

----------------------------------------------------------------------------
(* S3Service: uploads and listings (s3.ts) *)

\* the characters of the file paths, in the order of their codes
Characters == <<".", "/", "7", "B", "G", "J", "N", "O", "R", "S", "Z",
                "a", "b", "g", "j", "k", "n", "o", "r", "s", "t", "z">>
UpperCase == <<"B", "G", "J", "N", "O", "R", "S", "Z">>
LowerCase == <<"b", "g", "j", "n", "o", "r", "s", "z">>

\* String.prototype.toLowerCase
toLowerCase(str) ==
    [i \in 1..Len(str) |->
        IF \E k \in 1..Len(UpperCase) : UpperCase[k] = str[i]
        THEN LowerCase[CHOOSE k \in 1..Len(UpperCase) : UpperCase[k] = str[i]]
        ELSE str[i]]

\* the last position of character c in str, 0 if there is none
LastIndexOf(str, c) ==
    IF \E i \in 1..Len(str) : str[i] = c
    THEN CHOOSE i \in 1..Len(str) : str[i] = c /\ \A j \in (i + 1)..Len(str) : str[j] # c
    ELSE 0

\* path.basename of a path without trailing separators
basename(p) == SubSeq(p, LastIndexOf(p, "/") + 1, Len(p))

\* path.extname of a file name: from the last dot, unless the name has no
\* dot, begins with its only dot, or is ".."
extname(name) ==
    LET d == LastIndexOf(name, ".")
    IN  IF d = 0 \/ d = 1 \/ name = <<".", ".">> THEN <<>>
        ELSE SubSeq(name, d, Len(name))

\* getContentType without the case for '.7z'
getContentTypeThreeCases(fileName) ==
    LET ext == toLowerCase(extname(fileName))
    IN  CASE ext = <<".", "j", "s", "o", "n">> -> "application/json"
          [] ext = <<".", "g", "z">> -> "application/gzip"
          [] ext = <<".", "b", "r">> -> "application/brotli"
          [] OTHER -> "application/octet-stream"

\* lines 93-107
getContentType(fileName) ==
    LET ext == toLowerCase(extname(fileName))
    IN  CASE ext = <<".", "j", "s", "o", "n">> -> "application/json"
          [] ext = <<".", "g", "z">> -> "application/gzip"
          [] ext = <<".", "b", "r">> -> "application/brotli"
          [] ext = <<".", "7", "z">> -> "application/x-7z-compressed"
          [] OTHER -> "application/octet-stream"

\* the civil date of a day number (days since 1970-01-01), proleptic Gregorian
CivilFromDays(days) ==
    LET z == days + 719468
        era == z \div 146097
        doe == z - era * 146097
        yoe == (doe - doe \div 1460 + doe \div 36524 - doe \div 146096) \div 365
        doy == doe - (365 * yoe + yoe \div 4 - yoe \div 100)
        mp == (5 * doy + 2) \div 153
        d == doy - (153 * mp + 2) \div 5 + 1
        m == IF mp < 10 THEN mp + 3 ELSE mp - 9
        y == yoe + era * 400 + (IF m <= 2 THEN 1 ELSE 0)
    IN  [year |-> y, month |-> m, day |-> d]

TwoDigits(n) == IF n < 10 THEN "0" \o ToString(n) ELSE ToString(n)

\* new Date(t).toISOString().slice(0, 10), for the years 1000 to 9999
IsoDate(t) ==
    LET c == CivilFromDays(t \div MsPerDay)
    IN  ToString(c.year) \o "-" \o TwoDigits(c.month) \o "-" \o TwoDigits(c.day)

\* the constructor: envParseString('S3_BACKUP_BUCKET', ...) and ('AWS_REGION', ...)
Bucket == "nightscout-backups"
Region == "us-east-1"

\* line 55: `backups/${timestamp}/${fileName}`
ObjectKey(timestamp, fileName) == <<"backups/", timestamp, "/", fileName>>
\* line 77: `https://${this.bucket}.s3.${this.region}.amazonaws.com/${key}`
ObjectUrl(key) == <<"https://", Bucket, ".s3.", Region, ".amazonaws.com/", key>>

\* the local files uploadFile is called with
FilePaths ==
    {<<"/", "t", "/", "a", ".", "j", "s", "o", "n">>,
     <<"a", ".", "j", "s", "o", "n">>,
     <<"/", "t", "/", "a", ".", "J", "S", "O", "N">>,
     <<"/", "t", "/", "a", ".", "t", "a", "r", ".", "g", "z">>,
     <<"/", "t", "/", "a", ".", "G", "z">>,
     <<"/", "t", "/", "a", ".", "b", "r">>,
     <<"/", "t", "/", "a", ".", "B", "R">>,
     <<"/", "t", "/", "a", ".", "7", "z">>,
     <<"/", "t", "/", "a", ".", "7", "Z">>,
     <<"/", "t", "/", "a", ".", "b", "a", "k">>,
     <<"/", "t", "/", "a">>,
     <<"/", "t", "/", ".", "g", "z">>,
     <<"/", "t", "/", "a", ".">>,
     <<"/", "t", "/", "a", ".", "j", "s", "o", "n", ".", "b", "a", "k">>,
     <<"/", "t", ".", "g", "z", "/", "a">>}

\* what a rejected call throws: an Error with its message, or something else
Thrown == {[isError |-> TRUE, message |-> "ENOENT: no such file or directory"],
           [isError |-> TRUE, message |-> "Access Denied"],
           [isError |-> FALSE, message |-> ""]}

\* 1970-01-09T23:00:00Z (times are 32-bit here, so the first days of the epoch)
StorageBoot == 9 * MsPerDay - MsPerHour

EverythingButClockAndStorage ==
    <<pc, variant, opts, local, result, calls, appended, history, recorded,
      completed, started, fs, script, reportFailures, fetched, threads, limiter,
      scheduler, compression, callers>>

\* UploadFailure with the key of the object in the result
UploadFailureWithKey(error) ==
    [success |-> FALSE, s3Url |-> None, key |-> Some(uploading.key), bucket |-> None,
     error |-> Some(IF error.isError THEN error.message ELSE "Unknown S3 upload error")]

\* lines 85-90: the catch block of uploadFile
UploadFailure(error) ==
    [success |-> FALSE, s3Url |-> None, key |-> None, bucket |-> None,
     error |-> Some(IF error.isError THEN error.message ELSE "Unknown S3 upload error")]

\* the call returns res; stored tells whether S3 accepted the object
UploadReturns(res, stored) ==
    /\ uploads' = Append(uploads, [filePath |-> uploading.filePath, at |-> uploading.at,
                                   sent |-> uploading.sent, stored |-> stored,
                                   result |-> res])
    /\ uploading' = None

\* lines 51-59: up to the first await, fs.stat
UploadFileCalled(filePath) ==
    /\ uploading = None /\ Len(uploads) < MaxUploads
    /\ LET fileName == basename(filePath)
           timestamp == IsoDate(clock)
       IN  uploading' = [filePath |-> filePath, at |-> clock, awaits |-> "stat",
                         fileName |-> fileName,
                         key |-> ObjectKey(timestamp, fileName), sent |-> None]
    /\ UNCHANGED <<clock, bucket, uploads, listings>>
    /\ UNCHANGED EverythingButClockAndStorage

\* lines 59-75: fs.stat settles; the put is sent with the content type
UploadStatSettles(ok, error) ==
    /\ uploading # None /\ uploading.awaits = "stat"
    /\ IF ok
       THEN /\ uploading' = [uploading EXCEPT
                   !.awaits = "send",
                   !.sent = Some([Key |-> uploading.key,
                                  ContentType |-> getContentType(uploading.fileName),
                                  ACL |-> "public-read"])]
            /\ UNCHANGED uploads
       ELSE UploadReturns(UploadFailure(error), FALSE)
    /\ UNCHANGED <<clock, bucket, listings>>
    /\ UNCHANGED EverythingButClockAndStorage

\* lines 75-90: the put settles
UploadSendSettles(ok, error) ==
    /\ uploading # None /\ uploading.awaits = "send"
    /\ IF ok
       THEN /\ UploadReturns([success |-> TRUE, s3Url |-> Some(ObjectUrl(uploading.key)),
                              key |-> Some(uploading.key), bucket |-> Some(Bucket),
                              error |-> None], TRUE)
            /\ bucket' = [bucket EXCEPT
                   !.put = {o \in @ : o.key # uploading.key}
                           \cup {[key |-> uploading.key, lastModified |-> clock]}]
       ELSE /\ UploadReturns(UploadFailure(error), FALSE)
            /\ UNCHANGED bucket
    /\ UNCHANGED <<clock, listings>>
    /\ UNCHANGED EverythingButClockAndStorage

\* an hour passes
HourPasses ==
    /\ clock + MsPerHour <= StorageBoot + MaxStorageHours * MsPerHour
    /\ clock' = clock + MsPerHour
    /\ UNCHANGED <<bucket, uploading, uploads, listings>>
    /\ UNCHANGED EverythingButClockAndStorage

UploadSteps(Paths) ==
    \/ \E filePath \in Paths : UploadFileCalled(filePath)
    \/ \E ok \in BOOLEAN, error \in Thrown : UploadStatSettles(ok, error)
    \/ \E ok \in BOOLEAN, error \in Thrown : UploadSendSettles(ok, error)

NextStorage == UploadSteps(FilePaths) \/ HourPasses

\* SpecStorage: calls of uploadFile while time passes
InitStorage == InitAt(StorageBoot, DefaultRateLimit)
SpecStorage == InitStorage /\ [][NextStorage]_vars

\* line 126: MaxKeys, the most objects one ListObjectsV2 response holds
MaxKeys == 1000

\* the objects earlier processes left under backups/: count objects with
\* consecutive keys under one earlier date, put one after the other, kept as
\* one entry (the last of them was modified last)
EarlierDay == StorageBoot - 2 * MsPerDay
EarlierObjects(count) ==
    [key |-> ObjectKey(IsoDate(EarlierDay), <<"b">>), count |-> count,
     lastModified |-> EarlierDay + count]

\* how many objects earlier processes may have left
EarlierCounts == {2, MaxKeys - 1, MaxKeys}

\* the bucket as the process finds it
EarlierBackups(n) ==
    /\ bucket.earlier = 0 /\ bucket.put = {} /\ uploading = None /\ listings = <<>>
    /\ clock = StorageBoot
    /\ bucket' = [bucket EXCEPT !.earlier = n]
    /\ UNCHANGED <<clock, uploading, uploads, listings>>
    /\ UNCHANGED EverythingButClockAndStorage

CharCode(c) == CHOOSE i \in 1..Len(Characters) : Characters[i] = c

RECURSIVE NameBefore(_, _)
NameBefore(a, b) ==
    IF a = <<>> THEN b # <<>>
    ELSE IF b = <<>> THEN FALSE
    ELSE IF Head(a) = Head(b) THEN NameBefore(Tail(a), Tail(b))
    ELSE CharCode(Head(a)) < CharCode(Head(b))

\* the order of the keys of two objects put by this process: by the day the
\* key names (the object was put on that day or the next), then by file name
KeyDay(o) == CHOOSE t \in {o.lastModified, o.lastModified - MsPerDay} : IsoDate(t) = o.key[2]
KeyBefore(a, b) ==
    \/ KeyDay(a) \div MsPerDay < KeyDay(b) \div MsPerDay
    \/ KeyDay(a) \div MsPerDay = KeyDay(b) \div MsPerDay /\ NameBefore(a.key[4], b.key[4])

RECURSIVE SeqOf(_)
SeqOf(S) == IF S = {} THEN <<>> ELSE LET x == CHOOSE x \in S : TRUE IN <<x>> \o SeqOf(S \ {x})

\* the objects under the prefix 'backups/', in key order
StoredObjects ==
    (IF bucket.earlier > 0 THEN <<EarlierObjects(bucket.earlier)>> ELSE <<>>)
        \o SortSeq(SeqOf({[key |-> o.key, count |-> 1, lastModified |-> o.lastModified] :
                             o \in bucket.put}), KeyBefore)

RECURSIVE CountObjects(_)
CountObjects(objs) == IF objs = <<>> THEN 0 ELSE Head(objs).count + CountObjects(Tail(objs))

\* the Contents of the response to ListObjectsV2: the first maxKeys objects
RECURSIVE ListObjectsV2(_, _)
ListObjectsV2(stored, maxKeys) ==
    IF stored = <<>> \/ maxKeys = 0 THEN <<>>
    ELSE IF Head(stored).count <= maxKeys
    THEN <<Head(stored)>> \o ListObjectsV2(Tail(stored), maxKeys - Head(stored).count)
    ELSE <<[Head(stored) EXCEPT !.count = maxKeys, !.lastModified = @ - (Head(stored).count - maxKeys)]>>

\* lines 134-142: one S3BackupFile for each object of the response
BackupFile(obj) ==
    [fileName |-> obj.key[Len(obj.key)], key |-> obj.key, count |-> obj.count,
     lastModified |-> obj.lastModified, downloadUrl |-> ObjectUrl(obj.key)]

\* lines 121-158
listBackups(ok, error) ==
    /\ Len(listings) < MaxListings
    /\ LET stored == StoredObjects
           contents == ListObjectsV2(stored, MaxKeys)
           files == SortSeq([i \in 1..Len(contents) |-> BackupFile(contents[i])],
                            LAMBDA a, b : a.lastModified > b.lastModified)
           res == IF ok
                  THEN [success |-> TRUE, files |-> files, totalFiles |-> CountObjects(files),
                        error |-> None]
                  ELSE [success |-> FALSE, files |-> <<>>, totalFiles |-> 0,
                        error |-> Some(IF error.isError THEN error.message
                                       ELSE "Unknown S3 list error")]
       IN  listings' = Append(listings, [at |-> clock, stored |-> CountObjects(stored),
                                         responded |-> ok, result |-> res])
    /\ UNCHANGED <<clock, bucket, uploading, uploads>>
    /\ UNCHANGED EverythingButClockAndStorage

\* the file paths of SpecListing
ListedPaths == {<<"/", "t", "/", "a", ".", "j", "s", "o", "n">>,
                <<"/", "t", "/", "a", ".", "t", "a", "r", ".", "g", "z">>}

NextListing ==
    \/ \E n \in EarlierCounts : EarlierBackups(n)
    \/ UploadSteps(ListedPaths)
    \/ \E ok \in BOOLEAN, error \in Thrown : listBackups(ok, error)
    \/ HourPasses

\* SpecListing: calls of listBackups on a bucket that earlier processes and
\* this one have put objects in
SpecListing == InitStorage /\ [][NextListing]_vars

----------------------------------------------------------------------------
(* CompressionService (compression.ts) *)

\* COMPRESSION_METHOD in the environment file: 'gzip' (default) or 'brotli'
CompressionMethods == {"gzip", "brotli"}

\* the entry points of the service
CompressionEntries == {"compressFile", "compressWithGzip", "compressWithBrotli"}

CompressedFiles == {"/tmp/backup.json", "/tmp/dump.tar"}
FileSizes == {1024, 2048}

EverythingButCompression ==
    <<engine, script, reportFailures, fetched, threads, bucket, uploading, uploads,
      listings, limiter, scheduler, callers>>

\* the environment file sets COMPRESSION_METHOD before the service is used
Configure(method) ==
    /\ compression.method = None /\ compression.compressing = None
    /\ compression.results = <<>>
    /\ compression' = [compression EXCEPT !.method = Some(method)]
    /\ UNCHANGED EverythingButCompression

\* lines 19-21: compressFile returns compressWithGzip(filePath)
Codec(entry) ==
    CASE entry = "compressWithGzip" -> "gzip"
      [] entry = "compressWithBrotli" -> "brotli"
      [] OTHER -> "gzip"

\* lines 28 and 66: `${filePath}.gz` and `${filePath}.br`
CompressedPath(filePath, codec) == filePath \o (IF codec = "brotli" THEN ".br" ELSE ".gz")

\* lines 26-32 and 64-70: up to the first await, fs.stat of the file
CompressCalled(entry, filePath) ==
    /\ compression.compressing = None
    /\ Len(compression.results) < MaxCompressions
    /\ compression' = [compression EXCEPT !.compressing =
           Some([entry |-> entry, filePath |-> filePath, codec |-> Codec(entry),
                 compressedPath |-> CompressedPath(filePath, Codec(entry)),
                 awaits |-> "stat", originalSize |-> None])]
    /\ UNCHANGED EverythingButCompression

\* lines 52-57 and 98-103: the catch blocks
CompressionFailure(c, message) ==
    [entry |-> c.entry, filePath |-> c.filePath, method |-> compression.method,
     result |-> [success |-> FALSE, compressedPath |-> None, originalSize |-> None,
                 compressedSize |-> None, compressionType |-> None,
                 error |-> Some(message)]]

\* lines 31-40 and 69-87: fs.stat settles, the streams are made and piped
CompressStatSettles(ok, size) ==
    /\ compression.compressing # None
    /\ LET c == compression.compressing[1]
       IN  /\ c.awaits = "stat"
           /\ compression' =
                IF ok
                THEN [compression EXCEPT
                        !.compressing = Some([c EXCEPT !.awaits = "pipeline",
                                                       !.originalSize = Some(size)]),
                        !.written = @ \cup {c.compressedPath}]
                ELSE [compression EXCEPT
                        !.compressing = None,
                        !.results = Append(@, CompressionFailure(c, "ENOENT"))]
    /\ UNCHANGED EverythingButCompression

\* lines 40-43 and 87-90: the pipeline settles
CompressPipelineSettles(ok) ==
    /\ compression.compressing # None
    /\ LET c == compression.compressing[1]
       IN  /\ c.awaits = "pipeline"
           /\ compression' =
                IF ok
                THEN [compression EXCEPT
                        !.compressing = Some([c EXCEPT !.awaits = "compressedStat"])]
                ELSE [compression EXCEPT
                        !.compressing = None,
                        !.results = Append(@, CompressionFailure(c, "Compression failed"))]
    /\ UNCHANGED EverythingButCompression

\* lines 43-57 and 90-103: fs.stat of the compressed file settles
CompressedStatSettles(ok, size) ==
    /\ compression.compressing # None
    /\ LET c == compression.compressing[1]
       IN  /\ c.awaits = "compressedStat"
           /\ compression' =
                IF ok
                THEN [compression EXCEPT
                        !.compressing = None,
                        !.results = Append(@,
                            [entry |-> c.entry, filePath |-> c.filePath,
                             method |-> compression.method,
                             result |-> [success |-> TRUE,
                                         compressedPath |-> Some(c.compressedPath),
                                         originalSize |-> c.originalSize,
                                         compressedSize |-> Some(size),
                                         compressionType |-> Some(c.codec),
                                         error |-> None]])]
                ELSE [compression EXCEPT
                        !.compressing = None,
                        !.results = Append(@, CompressionFailure(c, "ENOENT"))]
    /\ UNCHANGED EverythingButCompression

NextCompression ==
    \/ \E method \in CompressionMethods : Configure(method)
    \/ \E entry \in CompressionEntries, filePath \in CompressedFiles :
          CompressCalled(entry, filePath)
    \/ \E ok \in BOOLEAN, size \in FileSizes : CompressStatSettles(ok, size)
    \/ \E ok \in BOOLEAN : CompressPipelineSettles(ok)
    \/ \E ok \in BOOLEAN, size \in FileSizes : CompressedStatSettles(ok, size)

SpecCompression == Init /\ [][NextCompression]_vars

----------------------------------------------------------------------------
(* Runs against a database without documents *)

\* what mongodump reports for empty collections: no count at all, or "0 documents"
EmptyReports == {<<>>, <<0>>}

InvokeEmpty ==
    \E o \in Requests, v \in Variants, eF \in BOOLEAN :
        started < MaxInvocations /\ Start("r1", v, o, eF)

\* SpecEmpty: one run of any variant; every collection that is fetched or
\* dumped is empty.
NextEmpty ==
    \/ InvokeEmpty /\ UNCHANGED outside
    \/ MdSteps({"r1"}, EmptyReports) /\ UNCHANGED outside
    \/ MdThreadSteps({"r1"}) /\ UNCHANGED outside
    \/ SpSteps({"r1"}, {0}, BOOLEAN) /\ UNCHANGED outside
    \/ SpThreadSteps({"r1"}) /\ UNCHANGED outside

SpecEmpty == Init /\ [][NextEmpty]_vars

----------------------------------------------------------------------------
(* Callers of getBackupHistory (part_010) *)

\* SpecCallers: runs of the mongodump singleton one after another, and callers
\* that read the history and change what they were given.  An entry object is
\* known by its place in recorded["mongodump"]; backupHistory holds the last
\* objects pushed, and an array returned to a caller holds references to them.

EverythingButHistoryAndCallers ==
    <<clock, pc, variant, opts, local, result, calls, appended, completed, started, fs,
      script, reportFailures, fetched, threads, bucket, uploading, uploads, listings,
      compression, limiter, scheduler>>

\* the objects backupHistory holds, oldest first
HistoryObjects ==
    [i \in 1..Len(history["mongodump"]) |->
        Len(recorded["mongodump"]) - Len(history["mongodump"]) + i]

\* lines 54-56: [...this.backupHistory], a new array of the same objects
getBackupHistory ==
    /\ Len(callers.reads) < MaxReads
    /\ callers' = [callers EXCEPT
           !.held = Append(@, HistoryObjects),
           !.reads = Append(@, [pushed |-> Len(recorded["mongodump"]),
                                value |-> history["mongodump"]])]
    /\ UNCHANGED <<history, recorded>>
    /\ UNCHANGED EverythingButHistoryAndCallers

\* a caller removes the last element of an array it was given
CallerPops(h) ==
    /\ callers.held[h] # <<>>
    /\ callers' = [callers EXCEPT !.held[h] = SubSeq(@, 1, Len(@) - 1)]
    /\ UNCHANGED <<history, recorded>>
    /\ UNCHANGED EverythingButHistoryAndCallers

\* a caller assigns the success field of an element of an array it was given
CallerSetsSuccess(h, i, value) ==
    /\ i \in DOMAIN callers.held[h]
    /\ LET object == callers.held[h][i]
           place == object - (Len(recorded["mongodump"]) - Len(history["mongodump"]))
       IN  /\ recorded' = [recorded EXCEPT !["mongodump"][object].stats.success = value]
           /\ history' = IF place >= 1
                         THEN [history EXCEPT !["mongodump"][place].success = value]
                         ELSE history
    /\ UNCHANGED callers
    /\ UNCHANGED EverythingButHistoryAndCallers

InvokeCallers ==
    /\ started < ConcurrentInvocations
    /\ Start("r1", "mongodump", HistoryRequest, TRUE)
    /\ UNCHANGED outside

NextCallers ==
    \/ InvokeCallers
    \/ MdHistorySteps /\ UNCHANGED outside
    \/ getBackupHistory
    \/ \E h \in DOMAIN callers.held : CallerPops(h)
    \/ \E h \in DOMAIN callers.held, i \in 1..HistoryLimit, value \in BOOLEAN :
          CallerSetsSuccess(h, i, value)

SpecCallers == Init /\ [][NextCallers]_vars

----------------------------------------------------------------------------
(* Runs whose external calls all return *)

\* SpecReturning: Spec with every awaited call of the run returning at last,
\* with whatever outcome.
SpecReturning ==
    /\ Init /\ [][Next]_vars
    /\ WF_vars(MdSteps({"r1"}, DumpReports) /\ UNCHANGED outside)
    /\ WF_vars(MdThreadSteps({"r1"}) /\ UNCHANGED outside)

----------------------------------------------------------------------------
(* A run that hangs *)

\* SpecBlocked: the scheduler with one punctual timer starts a run in slot r1;
\* a second invocation of performBackup runs in slot r2.  Every external call
\* of the run in r2 returns sooner or later, and the timer keeps running; no
\* external call of the run in r1 need ever return.
InitBlocked == InitAt(WindowStart - 2 * checkInterval, DefaultRateLimit)

BlockedStart == timers = {} /\ start(TRUE)

BlockedTick == \E t \in timers : TimerCallback(t, checkInterval)

InvokeOther ==
    /\ InFlight("r1") /\ pc["r2"] = "idle"
    /\ Start("r2", "mongodump", ConcurrentRequest, TRUE)
    /\ UNCHANGED outside

\* the external calls of the run in r1 that return
HangingRunSteps ==
    \/ MdThreadSteps({"r1"}) /\ UNCHANGED outside
    \/ MdSteps({"r1"}, {<<50, 15>>}) /\ UNCHANGED outside

\* the external calls of the run in r2, which has no thread; each succeeds or
\* fails, and the listeners of its notifications return normally
OtherRunSteps ==
    \E ok \in BOOLEAN :
        /\ \/ MdMkdir("r2", ok, TRUE)
           \/ MdMongodump("r2", ok, <<50, 15>>, TRUE)
           \/ MdTar("r2", ok, TRUE)
           \/ MdUpload("r2", ok, TRUE)
           \/ MdRm1("r2", ok, TRUE)
           \/ MdStat("r2", ok)
           \/ MdRm2("r2", ok, TRUE, TRUE)
           \/ MdRmCatch("r2", ok)
        /\ UNCHANGED outside

NextBlocked ==
    \/ BlockedStart
    \/ BlockedTick
    \/ InvokeOther
    \/ HangingRunSteps
    \/ OtherRunSteps

SpecBlocked ==
    /\ InitBlocked /\ [][NextBlocked]_vars
    /\ WF_vars(BlockedStart) /\ WF_vars(BlockedTick)
    /\ WF_vars(InvokeOther) /\ WF_vars(OtherRunSteps)

----------------------------------------------------------------------------
(* Properties *)

Has(s, x) == \E i \in DOMAIN s : s[i] = x

StatsOf(log) == [i \in 1..Len(log) |-> log[i].stats]

Min(a, b) == IF a <= b THEN a ELSE b

Returned(r) == pc[r] = "returned"

\* C1: every invocation of performBackup that has returned has pushed exactly
\* one entry on the history, whichever step of the run failed.
C1_ExactlyOneEntry == \A r \in RunIds : Returned(r) => appended[r] = 1

\* C2: the history of every singleton holds at most 10 entries, and between
\* invocations it holds the min(10, n) latest of the n outcomes recorded, in order.
C2_HistoryBounded ==
    \A v \in Variants :
        /\ Len(history[v]) <= HistoryLimit
        /\ ~InFlight("r1") =>
              /\ history[v] = LastN(StatsOf(recorded[v]), HistoryLimit)
              /\ Len(history[v]) = Min(HistoryLimit, completed[v])

\* C3: when performBackup of the mongodump variant has returned, the temporary
\* directory the run created before the export no longer exists.
C3_TempDirRemoved ==
    \A r \in RunIds :
        (Returned(r) /\ variant[r] = "mongodump" /\ Has(calls[r], "mongodump"))
            => TempDir(local[r].backupId) \notin fs

\* C4: a returned result with success = true carries no error message.
C4_SuccessHasNoError ==
    \A r \in RunIds : (Returned(r) /\ result[r].success) => result[r].error = None

\* C5: a returned result, and a history entry, with success = false carries no
\* artifact URL.
C5_FailureHasNoUrl ==
    /\ \A r \in RunIds : (Returned(r) /\ ~result[r].success) => result[r].s3Url = None
    /\ \A v \in Variants : \A i \in DOMAIN history[v] :
          ~history[v][i].success => history[v][i].s3Url = None

\* C6: a returned result, and a history entry, with success = true names at
\* least one processed collection.
C6_SuccessHasCollection ==
    /\ \A r \in RunIds :
          (Returned(r) /\ result[r].success) => Len(result[r].collectionsProcessed) >= 1
    /\ \A v \in Variants : \A i \in DOMAIN history[v] :
          history[v][i].success => Len(history[v][i].collectionsProcessed) >= 1

\* C7: in a mongodump run the export is started first and once, the archive
\* command only after the export has succeeded, and uploadFile only after the
\* archive command has succeeded.
C7_StagesInOrder ==
    \A r \in RunIds :
        LET c == calls[r]
        IN  \A i \in DOMAIN c :
              /\ c[i] = "mongodump" =>
                    \A j \in 1..(i - 1) : c[j] \notin {"mongodump", "tar", "uploadFile"}
              /\ c[i] = "tar" =>
                    /\ \E j \in 1..(i - 1) : c[j] = "mongodump:ok"
                    /\ \A j \in 1..(i - 1) : c[j] \notin {"tar", "uploadFile"}
              /\ c[i] = "uploadFile" =>
                    /\ \E j \in 1..(i - 1) : c[j] = "tar:ok"
                    /\ \A j \in 1..(i - 1) : c[j] # "uploadFile"

\* a run whose export succeeded, whose archive command failed, and which has
\* returned without calling uploadFile
C7_Witness ==
    \E r \in RunIds :
        /\ Returned(r)
        /\ Has(calls[r], "mongodump:ok") /\ Has(calls[r], "tar:failed")
        /\ ~Has(calls[r], "uploadFile")

\* C8: two runs in flight at the same time use different temporary directories
\* and different archive file names.
C8_DistinctDirs ==
    \A r1, r2 \in RunIds :
        (r1 # r2 /\ InFlight(r1) /\ InFlight(r2)) =>
            /\ TempDir(local[r1].backupId) # TempDir(local[r2].backupId)
            /\ TarPath(local[r1].backupId) # TarPath(local[r2].backupId)

\* C9: under every interleaving of concurrent runs the history is the latest
\* 10 of the entries the runs recorded, in the order they recorded them, none
\* lost and none twice, and it holds an entry of every run that has returned.
C9_NoLostAppend ==
    \A v \in Variants :
        /\ history[v] = LastN(StatsOf(recorded[v]), HistoryLimit)
        /\ \A r \in RunIds :
              (Returned(r) /\ variant[r] = v) =>
                  \E i \in DOMAIN recorded[v] : recorded[v][i].run = r

\* two runs that overlapped: both have returned, and the one that started
\* later recorded its outcome first
C9_Witness ==
    /\ Returned("r1") /\ Returned("r2")
    /\ local["r1"].startTime < local["r2"].startTime
    /\ Len(history["mongodump"]) >= 2
    /\ recorded["mongodump"][1].run = "r2"
    /\ recorded["mongodump"][2].run = "r1"

Count(s, x) == Cardinality({i \in DOMAIN s : s[i] = x})

UploadFailed == ErrorMessage("S3 upload failed: ", "upload error")

EntriesOf(r) ==
    StatsOf(SelectSeq(recorded[variant[r]], LAMBDA e : e.run = r))

\* what a run gives its caller and the history
OutcomeOf(r) ==
    [ended |-> pc[r],
     success |-> result[r].success,
     error |-> result[r].error,
     collectionsProcessed |-> result[r].collectionsProcessed,
     totalDocumentsProcessed |-> result[r].totalDocumentsProcessed,
     s3Url |-> result[r].s3Url,
     entries |-> EntriesOf(r)]

\* C12: two runs with the same request and the same outcomes of the export,
\* archive, upload, file-system and notification calls, which differ only in
\* which calls of the thread service succeeded, end the same way with the same
\* success flag, error, processed collections, document count, artifact URL
\* and history entries.
C12_ReportingNeverInfluences ==
    (Ended(pc["r1"]) /\ Ended(pc["r2"])) => OutcomeOf("r1") = OutcomeOf("r2")

\* both runs have returned, the first with a thread and every message posted,
\* the second with at least one failed call of the thread service
C12_Witness ==
    /\ Returned("r1") /\ Returned("r2")
    /\ result["r1"].threadId # None
    /\ reportFailures["r1"] = 0 /\ reportFailures["r2"] > 0
    /\ result["r1"].success

StagePrefixes == {"MongoDB dump failed: ", "Archive creation failed: ", "S3 upload failed: "}

\* C13: the error message of every mongodump run that has returned with an
\* error begins with the name of the stage that failed: "MongoDB dump failed: ",
\* "Archive creation failed: " or "S3 upload failed: ".
C13_ErrorNamesStage ==
    \A r \in RunIds :
        (Returned(r) /\ variant[r] = "mongodump" /\ result[r].error # None) =>
            result[r].error[1].prefix \in StagePrefixes

\* C14: every run started by the manual command was preceded by a call of
\* checkRateLimit for that user which returned Ok.
C14_ManualRunsAreLimited ==
    \A i \in DOMAIN manual :
        \E j \in DOMAIN checks :
            /\ checks[j].user = manual[i].user
            /\ checks[j].ok
            /\ checks[j].now <= manual[i].at

\* the earlier calls by the user of call i that returned Ok
EarlierOk(i) == {j \in 1..(i - 1) : checks[j].user = checks[i].user /\ checks[j].ok}

\* the time recorded for the user of call i when the call was made
LastRecorded(i) == checks[CHOOSE j \in EarlierOk(i) : \A k \in EarlierOk(i) : k <= j].now

\* C15: a call of checkRateLimit returns Ok iff no time is recorded for the
\* user or the cooldown has elapsed since the recorded time (now - last >=
\* cooldown), and Throttled otherwise.
C15_OkIffWindowElapsed ==
    \A i \in DOMAIN checks :
        checks[i].ok <=>
            \/ EarlierOk(i) = {}
            \/ checks[i].now - LastRecorded(i) >= checks[i].cooldown[1]

\* one user checked three times: Ok, Throttled inside the window, Ok again
\* once the window has elapsed
C15_Witness ==
    /\ Len(checks) = 3
    /\ \A i \in DOMAIN checks : checks[i].user = "u1"
    /\ checks[1].ok /\ ~checks[2].ok /\ checks[3].ok
    /\ checks[2].now > checks[1].now
    /\ checks[3].now - checks[1].now = checks[3].cooldown[1]

\* C16: of the calls of checkRateLimit by one user, no two that returned Ok
\* are less than the cooldown apart, whatever the order and the times of the
\* calls.
C16_OneAdmissionPerWindow ==
    \A i, j \in DOMAIN checks :
        (i < j /\ checks[i].user = checks[j].user /\ checks[i].ok /\ checks[j].ok)
            => checks[j].now - checks[i].now >= checks[j].cooldown[1]

\* two calls by one user at the same instant: the first returned Ok, the
\* second was throttled
C16_Witness ==
    \E i, j \in DOMAIN checks :
        /\ i < j /\ checks[i].user = checks[j].user
        /\ checks[i].now = checks[j].now
        /\ checks[i].ok /\ ~checks[j].ok

\* C17: a call of checkRateLimit that returns Ok sets the caller's entry to
\* the current time and changes no other entry; a throttled call changes no
\* entry; nothing else changes the map, and no entry is ever removed.
C17_LimiterFrame ==
    [][/\ checks' = checks => lastBackupTime' = lastBackupTime
       /\ checks' # checks =>
             LET c == checks'[Len(checks')]
             IN  /\ checks' = Append(checks, c)
                 /\ c.now = clock
                 /\ IF c.ok
                    THEN lastBackupTime' = [lastBackupTime EXCEPT ![c.user] = Some(c.now)]
                    ELSE lastBackupTime' = lastBackupTime
       /\ \A u \in UserIds : lastBackupTime[u] # None => lastBackupTime'[u] # None]_vars

\* a user was throttled after the clock had advanced: the entry still holds the
\* time of the earlier Ok, and the other user's entry is there too
C17_Witness ==
    /\ checks # <<>>
    /\ LET c == checks[Len(checks)]
       IN  /\ ~c.ok
           /\ c.now > c.lastBackup[1]
           /\ lastBackupTime[c.user] = c.lastBackup
           /\ \E u \in UserIds : u # c.user /\ lastBackupTime[u] # None

\* C18: a throttled call reports the remaining time n =
\* ceil((cooldown - (now - last)) / 1000) seconds, with 1 <= n <= cooldown in
\* seconds, as "<n div 60>m <n mod 60>s" when n >= 60 and "<n>s" otherwise;
\* with a 5-minute window and 10 seconds since the recorded time it is 290
\* seconds, "4m 50s".
C18_RemainingTime ==
    \A i \in DOMAIN checks :
        ~checks[i].ok =>
            LET left == checks[i].cooldown[1] - (checks[i].now - LastRecorded(i))
                n == checks[i].remaining[1]
            IN  /\ checks[i].remaining # None
                /\ n * MsPerSecond >= left /\ (n - 1) * MsPerSecond < left
                /\ n >= 1 /\ n * MsPerSecond <= checks[i].cooldown[1]
                /\ checks[i].message =
                      Some(IF n >= SecondsPerMinute
                           THEN ToString(n \div SecondsPerMinute) \o "m "
                                    \o ToString(n % SecondsPerMinute) \o "s"
                           ELSE ToString(n) \o "s")
                /\ (checks[i].cooldown[1] = 5 * SecondsPerMinute * MsPerSecond
                      /\ checks[i].now - LastRecorded(i) = 10 * MsPerSecond)
                     => (n = 290 /\ checks[i].message = Some("4m 50s"))

\* with a 5-minute window, a user throttled 10 seconds after being admitted
C18_Witness ==
    \E i \in DOMAIN checks :
        /\ ~checks[i].ok
        /\ checks[i].cooldown = Some(5 * SecondsPerMinute * MsPerSecond)
        /\ checks[i].now - checks[i].lastBackup[1] = 10 * MsPerSecond
        /\ checks[i].message = Some("4m 50s")

DayOf(t) == t \div MsPerDay

\* C19: with one interval timer set, the scheduler calls run() at most once on
\* any calendar day, whatever the times of the timer's callbacks.
C19_OncePerDay ==
    Cardinality(timers) <= 1 =>
        \A i, j \in DOMAIN fired : i < j => DayOf(fired[i].at) # DayOf(fired[j].at)

\* C20: when a timer that was set before the day's target minute began is
\* still set and has run a callback after the target minute ended, the
\* scheduler has called run() within the target minute.
C20_NoDaySkipped ==
    \A t \in timers :
        (t.set /\ t.created < WindowStart /\ t.last >= WindowEnd) =>
            \E i \in DOMAIN fired : fired[i].at >= WindowStart /\ fired[i].at < WindowEnd

\* the external calls a run can be suspended on
ExternalCalls ==
    {"createThread", "startMsg", "dumpMsg", "mkdir", "mongodump", "tarMsg", "tar",
     "uploadMsg", "upload", "rm1", "stat", "completeMsg", "rm2", "errorMsg", "rmCatch"}

\* the run in r1 is suspended on an external call
Hung == pc["r1"] \in ExternalCalls

\* C21: however long the run in r1 stays suspended on an external call, the
\* timer's later callbacks run, and another invocation of performBackup
\* starts, ends and records its outcome.
C21_HungRunBlocksOnlyItself ==
    <>[]Hung =>
        /\ <>(timers # {} /\ \A t \in timers : t.ticks = MaxTimerTicks)
        /\ <>(Returned("r2") /\ \E i \in DOMAIN recorded["mongodump"] :
                                     recorded["mongodump"][i].run = "r2")

\* the run in r1 is still suspended on the export; since it started, the timer
\* has run a callback and another run has started, returned and recorded its
\* outcome
C21_Witness ==
    /\ pc["r1"] = "mongodump"
    /\ \E t \in timers : t.last > local["r1"].startTime
    /\ Returned("r2") /\ local["r2"].startTime >= local["r1"].startTime
    /\ \E i \in DOMAIN recorded["mongodump"] : recorded["mongodump"][i].run = "r2"

Names(log) == [i \in 1..Len(log) |-> log[i].name]
Succeeded(log) == SelectSeq(log, LAMBDA f : f.ok)

RECURSIVE SumDocs(_)
SumDocs(log) == IF log = <<>> THEN 0 ELSE Head(log).docs + SumDocs(Tail(log))

\* C22: a per-collection run that has returned fetched every requested
\* collection, in request order, whichever fetches failed; its
\* collectionsProcessed are the collections whose fetch succeeded, in request
\* order, and its document count is the sum of their counts (50 and 15 give
\* 65).
C22_PartialSuccess ==
    \A r \in RunIds :
        (Returned(r) /\ variant[r] = "simple") =>
            /\ Names(fetched[r]) = local[r].collectionsToBackup
            /\ result[r].collectionsProcessed = Names(Succeeded(fetched[r]))
            /\ result[r].totalDocumentsProcessed = SumDocs(Succeeded(fetched[r]))
            /\ (Len(fetched[r]) = 2 /\ fetched[r][1].ok /\ fetched[r][2].ok
                  /\ fetched[r][1].docs = 50 /\ fetched[r][2].docs = 15)
                 => result[r].totalDocumentsProcessed = 65

\* a returned run for entries and treatments whose first fetch failed and
\* whose second fetch returned 15 documents
C22_Witness ==
    \E r \in RunIds :
        /\ Returned(r) /\ variant[r] = "simple"
        /\ Len(fetched[r]) = 2
        /\ ~fetched[r][1].ok /\ fetched[r][2].ok /\ fetched[r][2].docs = 15
        /\ result[r].success
        /\ result[r].collectionsProcessed = <<"treatments">>
        /\ result[r].totalDocumentsProcessed = 15

ThreadMessages ==
    {"sendBackupStartMessage", "sendBackupProgressMessage",
     "sendBackupCompleteMessage", "sendBackupErrorMessage"}

MessagesOf(r) == SelectSeq(calls[r], LAMBDA c : c \in ThreadMessages)

RecordedOutcome(r) == EntriesOf(r)[Len(EntriesOf(r))]

\* C23: a run with a thread that has returned sent exactly one terminal
\* message, the last message of the run: the completion summary if and only
\* if the outcome it recorded is a success, the failure message if and only if
\* it is a failure, and never both.
C23_OneTerminalMessage ==
    \A r \in RunIds :
        (Returned(r) /\ local[r].threadId # None) =>
            LET msgs == MessagesOf(r)
                completions == Count(calls[r], "sendBackupCompleteMessage")
                failures == Count(calls[r], "sendBackupErrorMessage")
            IN  /\ completions + failures = 1
                /\ msgs[Len(msgs)] \in {"sendBackupCompleteMessage", "sendBackupErrorMessage"}
                /\ (completions = 1) <=> RecordedOutcome(r).success
                /\ (failures = 1) <=> ~RecordedOutcome(r).success

DeletionsOf(id) == SelectSeq(threads.deletions, LAMBDA d : d.id = id)

CreatedThreads == {c \in {threads.creations[i] : i \in DOMAIN threads.creations} : c.outcome = "created"}
FailedCreations == {c \in {threads.creations[i] : i \in DOMAIN threads.creations} : c.outcome # "created"}

\* C24: while the process runs, every thread that was created gets its
\* deletion tried once, 7 days after its creation, and at no time more than
\* once, whatever the deletion's outcome; a call of createBackupThread that
\* created no thread has no timeout and no deletion.
C24_OneDeletionAfterSevenDays ==
    /\ [](\A c \in CreatedThreads :
             /\ Len(DeletionsOf(c.id)) <= 1
             /\ \A i \in DOMAIN DeletionsOf(c.id) :
                    DeletionsOf(c.id)[i].at = c.at + RetentionDays * MsPerDay)
    /\ [](\A c \in FailedCreations :
             /\ DeletionsOf(c.id) = <<>>
             /\ \A t \in threads.timeouts : t.id # c.id)
    /\ \A n \in 1..MaxThreads :
          (\E c \in CreatedThreads : c.id = ThreadId(n))
              ~> (Len(DeletionsOf(ThreadId(n))) = 1)

\* a thread created on the second day whose deletion was tried on the ninth
\* and failed, with nothing pending for it, next to a creation that failed
C24_Witness ==
    /\ \E c \in CreatedThreads :
          /\ c.at = MsPerDay
          /\ Len(DeletionsOf(c.id)) = 1
          /\ DeletionsOf(c.id)[1].outcome = "rejected"
          /\ DeletionsOf(c.id)[1].at = (1 + RetentionDays) * MsPerDay
          /\ \A t \in threads.timeouts : t.id # c.id
    /\ FailedCreations # {}
    /\ clock = MaxThreadDays * MsPerDay

\* name has a stem and ends, whatever the case of its letters, with ext
EndsWith(name, ext) ==
    /\ Len(name) > Len(ext)
    /\ toLowerCase(SubSeq(name, Len(name) - Len(ext) + 1, Len(name))) = ext

\* the content type a table of extensions gives a file name
TypeBy(table, name) ==
    IF \E e \in table : EndsWith(name, e.ext)
    THEN (CHOOSE e \in table : EndsWith(name, e.ext)).type
    ELSE "application/octet-stream"

ThreeTypes ==
    {[ext |-> <<".", "j", "s", "o", "n">>, type |-> "application/json"],
     [ext |-> <<".", "g", "z">>, type |-> "application/gzip"],
     [ext |-> <<".", "b", "r">>, type |-> "application/brotli"]}

FourTypes == ThreeTypes \cup {[ext |-> <<".", "7", "z">>, type |-> "application/x-7z-compressed"]}

PutsSent == {i \in DOMAIN uploads : uploads[i].sent # None}

\* C25 as stated: the content type of every put is the one the final
\* extension of the file name gives, whatever its case: application/json for
\* .json, application/gzip for .gz, application/brotli for .br, and
\* application/octet-stream for every other name.
C25_ThreeContentTypes ==
    \A i \in PutsSent :
        uploads[i].sent[1].ContentType = TypeBy(ThreeTypes, basename(uploads[i].filePath))

\* C25, amended: as above, with application/x-7z-compressed for .7z; every
\* call that read its file sent a put with a content type.
C25_ContentTypeByExtension ==
    /\ \A i \in PutsSent :
          uploads[i].sent[1].ContentType = TypeBy(FourTypes, basename(uploads[i].filePath))
    /\ \A i \in DOMAIN uploads : uploads[i].result.success => i \in PutsSent

\* a put for /t/a.7Z was sent as application/x-7z-compressed
C25_Witness ==
    \E i \in PutsSent :
        /\ uploads[i].filePath = <<"/", "t", "/", "a", ".", "7", "Z">>
        /\ uploads[i].sent[1].ContentType = "application/x-7z-compressed"

NewestFirst(files) ==
    \A i, j \in DOMAIN files : i < j => files[i].lastModified >= files[j].lastModified

\* C27: a call of listBackups that S3 answered returns every object stored
\* under backups/, newest first, with success = true (an empty list for an
\* empty bucket); a call S3 did not answer returns success = false with an
\* empty list.
C27_ListsEverything ==
    \A i \in DOMAIN listings :
        LET l == listings[i]
        IN  IF l.responded
            THEN /\ l.result.success
                 /\ l.result.totalFiles = l.stored
                 /\ CountObjects(l.result.files) = l.stored
                 /\ NewestFirst(l.result.files)
            ELSE /\ ~l.result.success
                 /\ l.result.files = <<>> /\ l.result.totalFiles = 0

\* C28: a successful call of compressFile made with COMPRESSION_METHOD set to
\* brotli gives the file's path with '.br' and reports brotli; with gzip or
\* no setting it gives the path with '.gz' and reports gzip.
C28_CodecFromConfiguration ==
    \A i \in DOMAIN compression.results :
        LET r == compression.results[i]
        IN  (r.entry = "compressFile" /\ r.result.success) =>
                IF r.method = Some("brotli")
                THEN /\ r.result.compressedPath = Some(r.filePath \o ".br")
                     /\ r.result.compressionType = Some("brotli")
                ELSE /\ r.result.compressedPath = Some(r.filePath \o ".gz")
                     /\ r.result.compressionType = Some("gzip")

ExportCompleted(r) ==
    IF variant[r] = "mongodump" THEN Has(calls[r], "mongodump:ok")
    ELSE Has(calls[r], "fetch:ok")

\* C29: a run that has returned after its export completed on empty
\* collections counts 0 documents, never fails for want of documents or
\* collections, and returns success = true unless a later step failed.
C29_EmptyExportSucceeds ==
    \A r \in RunIds :
        (Returned(r) /\ ExportCompleted(r)) =>
            /\ result[r].totalDocumentsProcessed = 0
            /\ result[r].error # Some(NoCollections)
            /\ result[r].error = None => result[r].success

\* a returned per-collection run that fetched two empty collections, and
\* returned success with both collections and 0 documents
C29_Witness ==
    /\ Returned("r1") /\ variant["r1"] = "simple"
    /\ Count(calls["r1"], "fetch:ok") = 2
    /\ result["r1"].success /\ result["r1"].error = None
    /\ Len(result["r1"].collectionsProcessed) = 2
    /\ result["r1"].totalDocumentsProcessed = 0
    /\ Len(EntriesOf("r1")) = 1 /\ EntriesOf("r1")[1].success

C31_DefensiveCopy ==
    \A i, j \in DOMAIN callers.reads :
        callers.reads[i].pushed = callers.reads[j].pushed =>
            callers.reads[i].value = callers.reads[j].value

\* the places of call c in the log of run r
PlacesOf(r, c) == {i \in DOMAIN calls[r] : calls[r][i] = c}

\* createBackupThread has answered run r without a thread
CreationFailed(r) ==
    /\ opts[r].createThread
    /\ pc[r] \notin {"idle", "createThread"}
    /\ local[r].threadId = None

\* C32: a run that has started has called createBackupThread once if a thread
\* was requested and never otherwise; the start message is sent at most once,
\* only with a thread, after createBackupThread and before every progress
\* message, and once the run is past it a run with a thread has sent it; a run
\* whose creation failed goes on to mkdir, sends no message of any kind and
\* reports no threadId.
C32_ThreadOnceStartFirst ==
    \A r \in RunIds :
        pc[r] # "idle" =>
            /\ Count(calls[r], "createBackupThread") = (IF opts[r].createThread THEN 1 ELSE 0)
            /\ Count(calls[r], "sendBackupStartMessage") <= 1
            /\ \A i \in PlacesOf(r, "sendBackupStartMessage") :
                   /\ local[r].threadId # None
                   /\ \E j \in PlacesOf(r, "createBackupThread") : j < i
            /\ \A i \in PlacesOf(r, "sendBackupProgressMessage") :
                   \E j \in PlacesOf(r, "sendBackupStartMessage") : j < i
            /\ (local[r].threadId # None) =>
                   /\ opts[r].createThread
                   /\ Count(calls[r], "sendBackupStartMessage") = 1
                   /\ MessagesOf(r)[1] = "sendBackupStartMessage"
            /\ CreationFailed(r) =>
                   /\ MessagesOf(r) = <<>>
                   /\ result[r].threadId = None
                   /\ variant[r] = "mongodump" => Has(calls[r], "mkdir")

C32_Witness ==
    /\ Returned("r1") /\ opts["r1"].createThread
    /\ result["r1"].threadId # None /\ result["r1"].success
    /\ Count(calls["r1"], "sendBackupStartMessage") = 1
    /\ Count(calls["r1"], "sendBackupProgressMessage") >= 2

C32_CreationFailedReached == Returned("r1") /\ CreationFailed("r1") /\ result["r1"].success

Emitted(r, event) == Count(calls[r], event)

\* C33: a run that has returned emitted exactly one notification:
\* backupCompleted if and only if the outcome it recorded is a success,
\* backupFailed if and only if it is a failure.
C33_OneNotification ==
    \A r \in RunIds :
        (Returned(r) /\ EntriesOf(r) # <<>>) =>
            /\ Emitted(r, "emit:backupCompleted") + Emitted(r, "emit:backupFailed") = 1
            /\ Emitted(r, "emit:backupCompleted") = 1 <=> RecordedOutcome(r).success
            /\ Emitted(r, "emit:backupFailed") = 1 <=> ~RecordedOutcome(r).success

Notifications == {"emit:backupCompleted", "emit:backupFailed"}

\* the calls of run r before its call at place i that are in set C
Before(r, i, C) == {j \in 1..(i - 1) : calls[r][j] \in C}

\* C34: when a run emits a notification, it has already appended the outcome
\* the notification is about: before its n-th emit the run has called
\* addToHistory at least n times.
C34_RecordedBeforeNotified ==
    \A r \in RunIds :
        \A i \in DOMAIN calls[r] :
            calls[r][i] \in Notifications =>
                Cardinality(Before(r, i, {"addToHistory"}))
                    > Cardinality(Before(r, i, Notifications))

\* the fields a history entry and a result have in common
Agreed(x) ==
    [success |-> x.success, collectionsProcessed |-> x.collectionsProcessed,
     totalDocumentsProcessed |-> x.totalDocumentsProcessed]

\* C35: the entry a run that has returned recorded last has the success flag,
\* the processed collections and the document count of the result returned.
C35_EntryAgreesWithResult ==
    \A r \in RunIds :
        (Returned(r) /\ EntriesOf(r) # <<>>) =>
            Agreed(RecordedOutcome(r)) = Agreed(result[r])

\* C36: a mongodump run that is about to read the size of its archive still
\* has the archive on disk, and the entry a successful run recorded carries
\* the size read.
C36_SizeReadWhileArchiveExists ==
    \A r \in RunIds :
        variant[r] = "mongodump" =>
            /\ pc[r] = "stat" => local[r].compressedPath[1] \in fs
            /\ (Returned(r) /\ EntriesOf(r) # <<>> /\ RecordedOutcome(r).success) =>
                   RecordedOutcome(r).size # None

\* C37: a run that has started returns at last with its result, and the
\* promise of performBackup is never rejected.
C37_EventuallyReturns ==
    \A r \in RunIds :
        /\ (pc[r] # "idle") ~> Returned(r)
        /\ [](pc[r] # "rejected")

\* a run that has started ends at last, by returning or by rejection
EventuallyEnds == \A r \in RunIds : (pc[r] # "idle") ~> Ended(pc[r])

\* C38: the scheduler starts a run only while it is running, that is after a
\* start() that installed a timer and before the stop() that follows it.
C38_RunsOnlyWhileRunning ==
    [][Len(fired') > Len(fired) => intervalId # None]_vars

ReportsOf(i) == {k \in DOMAIN reports : reports[k].fire = i}

\* C39: every fire of the scheduler called performBackup once, with
\* createThread true and isManual false; when its performBackup has ended,
\* run() has reported it once - a result without success and a rejection each
\* by one captureException - and not before; no step of a scheduled run reads
\* or writes the state of the rate limiter.
C39_FireReportsOnce ==
    /\ [](started = Len(fired))
    /\ [](\A i \in DOMAIN fired :
             LET r == fired[i].slot
             IN  IF i = LastFire(r)
                 THEN /\ opts[r] = ScheduledRequest
                      /\ Count(calls[r], "createBackupThread") = 1
                      /\ IF Ended(pc[r])
                         THEN \E k \in DOMAIN reports :
                                  /\ ReportsOf(i) = {k}
                                  /\ reports[k].kind = ReportOf(pc[r], result[r])
                         ELSE ReportsOf(i) = {}
                 ELSE Cardinality(ReportsOf(i)) = 1)
    /\ [][(fired' # fired \/ reports' # reports \/ calls' # calls)
             => UNCHANGED <<rateLimitSetting, lastBackupTime, checks, manual>>]_vars

C39_Witness ==
    /\ Len(fired) = 2
    /\ \E k \in DOMAIN reports :
           reports[k].fire = 1 /\ reports[k].kind = "captureException:unexpected"
    /\ \E k \in DOMAIN reports :
           reports[k].fire = 2 /\ reports[k].kind = "captureException:failed"

====
